---- MODULE Spec2Model ----
(***************************************************************************)
(* Model of the gap-aware ingestion and backfill engine of                 *)
(* visual_market_analyzer:                                                 *)
(*   - DataIngestionService (app/services/data_ingestion.py): the tick     *)
(*     buffer, its asyncio lock and its flushes;                           *)
(*   - CandleService (app/services/candle_service.py): the gap detector    *)
(*     _find_gaps and the read/detect/backfill/re-read of get_candles.     *)
(* Time is counted in units of 30 seconds from an origin that lies on      *)
(* every interval grid.                                                    *)
(***************************************************************************)
EXTENDS Integers, Sequences, FiniteSets, TLC

VARIABLES
    \* ---- DataIngestionService
    buffer,      \* self.buffer: the ticks appended and not yet cleared
    lock,        \* self._lock: the coroutine holding it, or None
    pc,          \* where each coroutine of the service stands
    cur,         \* the tick a handle_tick call was given
    inflight,    \* the list handed to bulk_insert_ticks by a pending write
    nextTick,    \* ticks are numbered in the order handle_tick is called
    nFlush,      \* number of flush_buffer calls made so far
    appended,    \* history: the ticks in the order they were appended
    writes,      \* history: every bulk_insert_ticks call that has ended
    returned,    \* history: for a tick whose handle_tick returned, the
                 \* number of ended writes and the buffer at that moment
    flushLoop,   \* the task of start_flush_loop: "running", "cancelling"
                 \* (cancel() was called), "final" (the handler of
                 \* CancelledError runs) or "exited"
    atCancel,    \* history: the ticks in the buffer when cancel() was called
    flushLog,    \* history: every flush_buffer call that has returned
    \* ---- CandleService._find_gaps on its own
    gInterval,   \* interval token
    gFrom,       \* from_date
    gTo,         \* to_date
    gCandles,    \* the "bucket" of each candle, in the order of the list
    gGaps,       \* the list returned
    gPc,         \* "off", "ready" (inputs chosen) or "done" (returned)
    \* ---- CandleService.get_candles, the store and the provider
    ticks,       \* the rows of tick_data (one instrument)
    view,        \* for each continuous aggregate, its materialized buckets
    pBars,       \* the bar times the provider holds at the resolution asked
    rPc,         \* where each get_candles call stands
    rInterval,   \* its interval token
    rFrom,       \* its from_date
    rTo,         \* its to_date
    rGaps,       \* the gaps it still has to backfill
    rBars,       \* the bars its current _backfill_gap fetched
    rFirst,      \* the candles of its first query
    rResult,     \* the list it returned
    rFetchFailed, \* history: a provider fetch of this call failed
    rLog,        \* history: the fetches, inserts and refreshes of this call
    rRequests,   \* history: its calls of refresh_continuous_aggregate
    rQueries,    \* history: number of _query_db_candles calls it made
    \* ---- HistoricalDataService.backfill_historical_data
    uniqueTicks, \* tick_data has a unique index (its schema is not part of
                 \* the sources: either is possible)
    dupRows,     \* number of rows of tick_data that repeat a row of ticks
    hPc,         \* where the backfill_historical_data call stands
    hRun,        \* 1 for the first call, 2 for the same call made again
    hInterval,   \* its interval token
    hFrom,       \* the day of its from_date (a midnight)
    hTo,         \* the day of its to_date (a midnight)
    hCandles,    \* the candles its fetch returned
    hFirst,      \* history: tick_data and the aggregates after the first call
    \* ---- RealtimeStreamingService
    is_running,  \* self.is_running
    sPc,         \* where auto_streaming_loop stands
    retry_delay, \* retry_delay of auto_streaming_loop, in seconds
    elapsed,     \* elapsed of auto_streaming_loop, in seconds
    subs,        \* the push subscriptions open at the provider
    ticker,      \* the subscription self.broker holds (0: none)
    subscribed,  \* len(self.broker._subscribed_instruments)
    pending,     \* number of instruments start_streaming is connecting
    nConnects,   \* number of subscriptions opened so far
    lastOutcome, \* history: how the last start_streaming ended
    lastWait,    \* history: the last back-off wait, what it came after and
                 \* the wait before it
    maxWait,     \* history: the longest back-off wait so far
    restarts,    \* history: number of restarts asked for by a refresh
    shutdown,    \* history: the shutdown has stopped streaming, and whether
                 \* its disconnect went through
    afterShutdown, \* history: what the loop did after that ("opened" a
                 \* subscription, began a "backoff")
    dropped,     \* history: "closed" when the remote side has closed the
                 \* subscription, "unnoticed" when the keep-alive loop has
                 \* gone on after that
    lastRefresh, \* history: the hourly refresh the loop has just made (the
                 \* instruments found, those subscribed, whether the stream
                 \* was restarted); forgotten at the next step
    logged,      \* history: the severity of the log lines the failure just
                 \* handled was reported with; forgotten at the next step
    \* ---- auto_backfill_service and _async_backfill
    pool,        \* the connection pool: "open" or "closing"
    utcnow,      \* datetime.now(timezone.utc), in units of 30 minutes
    backfill_status, \* the rows of the table backfill_status
    bPc,         \* where auto_backfill_service stands
    bIdx,        \* the index of token in instruments_to_check
    bNow,        \* now of auto_backfill_service
    bCandles,    \* len(candles) of auto_backfill_service
    sweepLog,    \* history: what the for loop did with each instrument
    abortedAt,   \* history: the index at which a closing pool ended the
                 \* for loop (0: it did not)
    nCycles,     \* number of iterations of "while True" begun
    checked,     \* history: the last should_backfill, its rows, time, result
    attemptEnd,  \* history: how the last backfill of the sweep ended
    startedAfter, \* history: attemptEnd when the backfill under way began
    prevTo,      \* history: last_backfilled_to before each row's last write
    lastWrite,   \* history: the last values written for each instrument
    failed,      \* history: for each instrument whose backfill has failed
                 \* and that has neither been written nor been found
                 \* eligible since, its rows before and after the failure
    tPc,         \* where _async_backfill stands
    tToken,      \* instrument_token of _async_backfill
    tTo,         \* to_date of _async_backfill
    tCandles,    \* len(candles) of _async_backfill
    nTriggers,   \* number of trigger_backfill calls so far
    \* ---- CandleService._store_candles, the records of one candle
    synCandle,   \* the candle c of the provider
    synRecords,  \* the records appended for it, in the order of the list
    synPc,       \* "off", "ready" (candle chosen) or "done" (records built)
    \* ---- lifespan
    life         \* where the lifespan stands: "serving", then the steps of
                 \* its shutdown

bufVars == <<buffer, lock, pc, cur, inflight, nextTick, nFlush,
             appended, writes, returned, flushLoop, atCancel, flushLog>>

gapVars == <<gInterval, gFrom, gTo, gCandles, gGaps, gPc>>

readVars == <<ticks, view, pBars, rPc, rInterval, rFrom, rTo, rGaps, rBars,
              rFirst, rResult, rFetchFailed, rLog, rRequests, rQueries>>

histVars == <<uniqueTicks, dupRows, hPc, hRun, hInterval, hFrom, hTo,
              hCandles, hFirst>>

streamVars == <<is_running, sPc, retry_delay, elapsed, subs, ticker,
                subscribed, pending, nConnects, lastOutcome, lastWait, maxWait,
                restarts, shutdown, afterShutdown, dropped, lastRefresh,
                logged>>

sweepVars == <<pool, utcnow, backfill_status, bPc, bIdx, bNow, bCandles,
               sweepLog, abortedAt, nCycles, checked, attemptEnd,
               startedAfter, prevTo, lastWrite, failed, tPc, tToken, tTo,
               tCandles,
               nTriggers>>

synthVars == <<synCandle, synRecords, synPc>>

lifeVars == <<life>>

vars == <<bufVars, gapVars, readVars, histVars, streamVars, sweepVars,
          synthVars, lifeVars>>

None == "none"

\* ------------------------------------------------------------------------
\* Bounds of the model
\* ------------------------------------------------------------------------

\* settings.tick_buffer_size, scaled down from its default of 1000
BufferSize == 2
\* ticks handed to handle_tick in one run
MaxTicks == 4
\* flush_buffer calls (timer loop and manual) in one run
MaxFlushCalls == 2
\* the interval grid has the buckets 0 .. MaxBucket
MaxBucket == 6
\* the buckets 0 .. MaxReadBucket are those a get_candles call can ask for
MaxReadBucket == 3
\* the buckets 0 .. MaxConcBucket are those two concurrent get_candles
\* calls can ask for
MaxConcBucket == 2
\* subscriptions the streaming service opens in one run
MaxConnects == 3
\* restarts a refresh of the instruments asks for in one run
MaxRestarts == 2
\* a historical backfill can ask for the days 0 .. MaxDay
MaxDay == 1
\* times the same historical backfill is asked for in one run
MaxRuns == 2

\* where the clock of the scheduler starts; it stops one step later
StartClock == 14
MaxClock == StartClock + 1

\* iterations of the "while True" of auto_backfill_service
MaxCycles == 2

\* calls of trigger_backfill
MaxTriggers == 1

\* the prices of a provider candle are 1 .. MaxPrice
MaxPrice == 4
\* its volume is 0 .. MaxVolume
MaxVolume == 2

\* ------------------------------------------------------------------------
\* DataIngestionService
\* ------------------------------------------------------------------------

\* the coroutines calling handle_tick (the streaming tick_handler and the
\* /api/ws endpoint) and those calling flush_buffer (start_flush_loop and
\* the lifespan shutdown)
Producers == {"stream", "ws"}
Flushers == {"timer", "manual"}
Procs == Producers \cup Flushers

\* mutant: the lock excludes nobody
LockFree_NoExclusion == TRUE

\* async with self._lock: the lock can be taken when nobody holds it
LockFree == lock = None

\* mutant: the threshold test is strict
ShouldFlush_Strict(buf) == Len(buf) > BufferSize

\* len(self.buffer) >= self.buffer_size
ShouldFlush(buf) == Len(buf) >= BufferSize

\* mutant: the buffer is cleared whatever the write did
BufferAfterWrite_AlwaysClear(buf, ok) == <<>>

\* _flush_buffer_internal after bulk_insert_ticks ended: self.buffer.clear()
\* on success, the buffer kept for retry when the write raised
BufferAfterWrite(buf, ok) == IF ok THEN <<>> ELSE buf

\* _flush_buffer_internal: "except Exception" logs and does not re-raise
FlushRaises(ok) == FALSE

\* "if not self.buffer" is never taken
NothingToFlush_Never(buf) == FALSE

\* _flush_buffer_internal: "if not self.buffer: return"
NothingToFlush(buf) == buf = <<>>

\* start_flush_loop calls flush_buffer from its while loop only while it
\* has not been cancelled
LoopCalls(f, loop) == f = "timer" => loop = "running"

\* a flush_buffer call of start_flush_loop goes on while the task runs its
\* while loop or the handler of CancelledError
LoopRuns(f, loop) == f = "timer" => loop \in {"running", "final"}

\* the state of the task when its flush_buffer call returns: the final
\* flush of the handler is the last thing it does
LoopAfterFlush(f, loop) ==
    IF f = "timer" /\ loop = "final" THEN "exited" ELSE loop

\* the ticks of a sequence
Elems(seq) == {seq[i] : i \in DOMAIN seq}

\* what a flush_buffer call that returns has done: the buffer it found
\* under the lock, the buffer it left, the number of ended writes before
\* and after, and the number of ticks appended so far
Flushed(f, found, left, before, after) ==
    [by |-> f, found |-> found, left |-> left, before |-> before,
     after |-> after, nappended |-> Len(appended)]

BufInit ==
    /\ buffer = <<>>
    /\ lock = None
    /\ pc = [p \in Procs |-> "idle"]
    /\ cur = [p \in Producers |-> 0]
    /\ inflight = [p \in Procs |-> <<>>]
    /\ nextTick = 1
    /\ nFlush = 0
    /\ appended = <<>>
    /\ writes = <<>>
    /\ returned = [t \in {} |-> 0]
    /\ flushLoop = "running"
    /\ atCancel = {}
    /\ flushLog = <<>>

\* a caller awaits handle_tick(tick_data): the call is queued on the lock
handle_tick(p) ==
    /\ pc[p] = "idle"
    /\ nextTick <= MaxTicks
    /\ cur' = [cur EXCEPT ![p] = nextTick]
    /\ nextTick' = nextTick + 1
    /\ pc' = [pc EXCEPT ![p] = "acquire"]
    /\ UNCHANGED <<buffer, lock, inflight, nFlush, appended, writes, returned,
                   flushLoop, atCancel, flushLog>>

\* handle_tick from the lock to its first suspension: append, and either
\* return (releasing the lock) or start the flush and await the bulk insert
handle_tick_locked(p) ==
    /\ pc[p] = "acquire"
    /\ LockFree
    /\ LET buf == Append(buffer, cur[p]) IN
        /\ buffer' = buf
        /\ appended' = Append(appended, cur[p])
        /\ IF ShouldFlush(buf) /\ buf # <<>>
           THEN /\ lock' = p
                /\ inflight' = [inflight EXCEPT ![p] = buf]
                /\ pc' = [pc EXCEPT ![p] = "writing"]
                /\ UNCHANGED returned
           ELSE /\ pc' = [pc EXCEPT ![p] = "idle"]
                /\ returned' = (cur[p] :> [nwrites |-> Len(writes), buf |-> buf])
                                 @@ returned
                /\ UNCHANGED <<lock, inflight>>
    /\ UNCHANGED <<cur, nextTick, nFlush, writes, flushLoop, atCancel,
                   flushLog>>

\* a caller awaits flush_buffer(): the call is queued on the lock
flush_buffer(f) ==
    /\ pc[f] = "idle"
    /\ LoopCalls(f, flushLoop)
    /\ nFlush < MaxFlushCalls
    /\ nFlush' = nFlush + 1
    /\ pc' = [pc EXCEPT ![f] = "acquire"]
    /\ UNCHANGED <<buffer, lock, cur, inflight, nextTick, appended, writes,
                   returned, flushLoop, atCancel, flushLog>>

\* flush_buffer from the lock to its first suspension: an empty buffer
\* returns at once, otherwise the bulk insert is awaited
flush_buffer_locked(f) ==
    /\ pc[f] = "acquire"
    /\ LoopRuns(f, flushLoop)
    /\ LockFree
    /\ IF NothingToFlush(buffer)
       THEN /\ pc' = [pc EXCEPT ![f] = "idle"]
            /\ flushLoop' = LoopAfterFlush(f, flushLoop)
            /\ flushLog' = Append(flushLog, Flushed(f, buffer, buffer,
                                                    Len(writes), Len(writes)))
            /\ UNCHANGED <<lock, inflight>>
       ELSE /\ lock' = f
            /\ inflight' = [inflight EXCEPT ![f] = buffer]
            /\ pc' = [pc EXCEPT ![f] = "writing"]
            /\ UNCHANGED <<flushLoop, flushLog>>
    /\ UNCHANGED <<buffer, cur, nextTick, nFlush, appended, writes, returned,
                   atCancel>>

\* the awaited bulk_insert_ticks ends, with success or with an exception
\* (it was handed self.buffer, which nobody changes while the lock is held);
\* _flush_buffer_internal finishes and its caller releases the lock
bulk_insert_ticks_ends(q, ok) ==
    /\ pc[q] = "writing"
    /\ LoopRuns(q, flushLoop)
    /\ flushLoop' = LoopAfterFlush(q, flushLoop)
    /\ LET after == BufferAfterWrite(buffer, ok) IN
        /\ buffer' = after
        /\ writes' = Append(writes, [by |-> q, batch |-> inflight[q], ok |-> ok,
                                     before |-> buffer, after |-> after,
                                     raised |-> FlushRaises(ok)])
        /\ returned' = IF q \in Producers
                       THEN (cur[q] :> [nwrites |-> Len(writes) + 1, buf |-> after])
                              @@ returned
                       ELSE returned
        /\ flushLog' = IF q \in Flushers
                       THEN Append(flushLog, Flushed(q, inflight[q], after,
                                                     Len(writes),
                                                     Len(writes) + 1))
                       ELSE flushLog
    /\ lock' = IF lock = q THEN None ELSE lock
    /\ inflight' = [inflight EXCEPT ![q] = <<>>]
    /\ pc' = [pc EXCEPT ![q] = "idle"]
    /\ UNCHANGED <<cur, nextTick, nFlush, appended, atCancel>>

bulk_insert_ticks_ok(q) == bulk_insert_ticks_ends(q, TRUE)
bulk_insert_ticks_raises(q) == bulk_insert_ticks_ends(q, FALSE)

\* lifespan, shutdown: flush_task.cancel(); the CancelledError is thrown
\* into the task when the event loop runs it next
flush_task_cancel ==
    /\ flushLoop = "running"
    /\ flushLoop' = "cancelling"
    /\ atCancel' = Elems(buffer)
    /\ UNCHANGED <<buffer, lock, pc, cur, inflight, nextTick, nFlush,
                   appended, writes, returned, flushLog>>

\* start_flush_loop receives the CancelledError at the await it stands at:
\* asyncio.sleep, the acquire of the lock, or bulk_insert_ticks. In the
\* last case the error passes "except Exception" of
\* _flush_buffer_internal, the buffer is not cleared and the lock is
\* released, while the rows of the interrupted insert are stored or not.
\* The handler then calls flush_buffer for the final flush.
flush_loop_cancelled(stored) ==
    /\ flushLoop = "cancelling"
    /\ flushLoop' = "final"
    /\ pc' = [pc EXCEPT !["timer"] = "acquire"]
    /\ IF pc["timer"] = "writing"
       THEN /\ writes' = Append(writes,
                              [by |-> "timer", batch |-> inflight["timer"],
                               ok |-> stored, before |-> buffer,
                               after |-> buffer, raised |-> TRUE])
            /\ lock' = None
            /\ inflight' = [inflight EXCEPT !["timer"] = <<>>]
       ELSE /\ stored = FALSE
            /\ UNCHANGED <<writes, lock, inflight>>
    /\ UNCHANGED <<buffer, cur, nextTick, nFlush, appended, returned,
                   atCancel, flushLog>>

\* ------------------------------------------------------------------------
\* lifespan: the shutdown sequence after "yield"
\* ------------------------------------------------------------------------

\* the application serves requests: the shutdown has not begun
LifeOff == life = "serving"

\* the subscription delivers ticks to tick_handler until stop_streaming has
\* disconnected it
SubscriptionOpen == life \notin {"stopped", "closed"}

\* the storage takes an insert while close_db has not closed the pool
StorageOpen == life # "closed"

\* the subscription calls tick_handler, which awaits handle_tick
tick_handler ==
    /\ SubscriptionOpen
    /\ handle_tick("stream")
    /\ UNCHANGED life

\* start_flush_loop, "while True": sleep, then flush_buffer (one call is
\* left to the shutdown)
flush_loop_wakes ==
    /\ nFlush + 1 < MaxFlushCalls
    /\ flush_buffer("timer")
    /\ UNCHANGED life

\* bulk_insert_ticks acquires a connection of the pool and inserts
insert_stored(q) ==
    /\ StorageOpen
    /\ bulk_insert_ticks_ok(q)
    /\ UNCHANGED life

\* flush_task.cancel()
lifespan_cancel ==
    /\ life = "serving"
    /\ flush_task_cancel
    /\ life' = "cancelled"

\* await data_ingestion_service.flush_buffer()
lifespan_flush ==
    /\ life = "cancelled"
    /\ flush_buffer("manual")
    /\ life' = "flushing"

\* flush_buffer has returned; await realtime_service.stop_streaming()
\* disconnects the subscription
lifespan_stop_streaming ==
    /\ life = "flushing"
    /\ pc["manual"] = "idle"
    /\ life' = "stopped"
    /\ UNCHANGED bufVars

\* await close_db(): the pool is closed once the connections in use have
\* been released
lifespan_close_db ==
    /\ life = "stopped"
    /\ \A q \in Procs : pc[q] # "writing"
    /\ life' = "closed"
    /\ UNCHANGED bufVars

\* ------------------------------------------------------------------------
\* Properties of the tick buffer
\* ------------------------------------------------------------------------

IsPrefix(s, t) == Len(s) <= Len(t) /\ SubSeq(t, 1, Len(s)) = s

\* number of positions of sequence s that hold x
Occurrences(s, x) == Cardinality({i \in DOMAIN s : s[i] = x})

RECURSIVE SumOver(_, _)
SumOver(f, S) == IF S = {} THEN 0
                 ELSE LET x == CHOOSE y \in S : TRUE
                      IN f[x] + SumOver(f, S \ {x})

\* number of times tick t was handed to storage by a successful write
TimesWritten(t) ==
    SumOver([i \in DOMAIN writes |->
                IF writes[i].ok THEN Occurrences(writes[i].batch, t) ELSE 0],
            DOMAIN writes)

\* tick t was accepted by handle_tick and its call still waits for the lock
Queued(t) == \E p \in Producers : pc[p] = "acquire" /\ cur[p] = t

\* C1: under every interleaving of handle_tick calls with timer-driven and
\* manual flush_buffer calls, each accepted tick is in exactly one place:
\* still queued on the lock, once in the buffer, or once in one successful
\* bulk write. So no tick leaves the buffer unwritten and none is written by
\* two successful writes.
C1_TickInExactlyOnePlace ==
    \A t \in 1..(nextTick - 1) :
        (IF Queued(t) THEN 1 ELSE 0) + Occurrences(buffer, t) + TimesWritten(t) = 1

\* C1 witness: an ingest call waits on the lock while a flush_buffer call
\* holds it for its write, after a threshold flush has written ticks.
C1_Witness ==
    /\ \E p \in Producers : pc[p] = "acquire"
    /\ \E f \in Flushers : lock = f /\ pc[f] = "writing"
    /\ \E i \in DOMAIN writes : writes[i].ok /\ writes[i].by \in Producers

\* C2: a bulk write that fails leaves the buffer exactly as it was (the
\* ticks offered, in the same order), raises nothing to the caller, and the
\* next flush attempt offers the same ticks again; the buffer changes in a
\* flush only when the write succeeded.
C2_FailedFlushKeepsBuffer ==
    /\ \A i \in DOMAIN writes :
        LET w == writes[i] IN
        /\ ~w.ok => (w.after = w.before /\ w.before = w.batch /\ ~w.raised)
        /\ (~w.ok /\ i < Len(writes)) => IsPrefix(w.batch, writes[i + 1].batch)
        /\ w.after # w.before => w.ok
    /\ (writes # <<>> /\ ~writes[Len(writes)].ok)
          => IsPrefix(writes[Len(writes)].batch, buffer)

\* C2 witness: a write of two or more ticks failed and the next flush
\* attempt wrote them.
C2_Witness ==
    \E i \in DOMAIN writes :
        /\ ~writes[i].ok
        /\ Len(writes[i].batch) >= 2
        /\ i < Len(writes)
        /\ writes[i + 1].ok

\* no flush_buffer call has reached a write: every write so far was started
\* by the threshold check of handle_tick
OnlyThresholdFlushes ==
    /\ \A f \in Flushers : pc[f] # "writing"
    /\ \A i \in DOMAIN writes : writes[i].by \in Producers

\* position of tick t in the order of appends (0 when not appended)
AppendIndex(t) ==
    IF \E i \in DOMAIN appended : appended[i] = t
    THEN CHOOSE i \in DOMAIN appended : appended[i] = t
    ELSE 0

\* C3: from an empty buffer, the first BufferSize - 1 ingests cause no
\* storage write; the ingest of tick number BufferSize performs exactly one
\* bulk write, of all BufferSize ticks in ingestion order, before it
\* returns, and the buffer is empty at its return when that write succeeded.
C3_ThresholdFlush ==
    OnlyThresholdFlushes =>
        /\ Len(appended) < BufferSize =>
              (writes = <<>> /\ \A p \in Procs : pc[p] # "writing")
        /\ \A t \in DOMAIN returned :
              /\ AppendIndex(t) < BufferSize => returned[t].nwrites = 0
              /\ AppendIndex(t) = BufferSize =>
                    /\ returned[t].nwrites = 1
                    /\ writes[1].batch = SubSeq(appended, 1, BufferSize)
                    /\ writes[1].ok => returned[t].buf = <<>>
        /\ (Len(appended) >= BufferSize /\ appended[BufferSize] \notin DOMAIN returned)
              => /\ writes = <<>>
                 /\ \E p \in Producers :
                       /\ pc[p] = "writing"
                       /\ cur[p] = appended[BufferSize]
                       /\ inflight[p] = SubSeq(appended, 1, BufferSize)

\* C3 witness: the ingest of tick number BufferSize has returned after a
\* successful threshold flush.
C3_Witness ==
    /\ OnlyThresholdFlushes
    /\ Len(appended) >= BufferSize
    /\ appended[BufferSize] \in DOMAIN returned
    /\ writes # <<>>
    /\ writes[1].ok

\* C29: when the cancelled flush loop has exited, every tick that was in
\* the buffer at the cancellation has been stored by exactly one write, or
\* is still in the buffer after a write that offered it has failed.
C29_FinalFlushStoresEachTickOnce ==
    flushLoop = "exited" =>
        \A t \in atCancel :
            /\ TimesWritten(t) + Occurrences(buffer, t) = 1
            /\ Occurrences(buffer, t) = 1 =>
                  \E i \in DOMAIN writes :
                      ~writes[i].ok /\ Occurrences(writes[i].batch, t) = 1

\* C30: a flush_buffer call that finds the buffer empty ends no write and
\* leaves the buffer empty; and of two flush_buffer calls that return one
\* after the other with no tick appended in between, the first one's
\* write succeeding, the second one ends no write.
C30_EmptyFlushIsNoOp ==
    /\ \A i \in DOMAIN flushLog :
          flushLog[i].found = <<>> =>
              (flushLog[i].left = <<>> /\ flushLog[i].after = flushLog[i].before)
    /\ \A i \in DOMAIN writes : writes[i].batch # <<>>
    /\ \A i \in DOMAIN flushLog :
          (/\ i < Len(flushLog)
           /\ flushLog[i].left = <<>>
           /\ flushLog[i + 1].nappended = flushLog[i].nappended)
              => flushLog[i + 1].after = flushLog[i].after

\* C30 witness: a flush_buffer call has written the buffer, and the next
\* one, with no tick appended in between, has found the buffer empty.
C30_Witness ==
    \E i \in DOMAIN flushLog :
        /\ i < Len(flushLog)
        /\ flushLog[i].found # <<>>
        /\ flushLog[i].left = <<>>
        /\ flushLog[i + 1].nappended = flushLog[i].nappended
        /\ flushLog[i + 1].found = <<>>

\* C38: when the shutdown sequence of the lifespan (cancel the flush loop,
\* flush, stop streaming, close storage) has completed, the buffer is empty
\* and every tick that handle_tick accepted has been stored by a write.
C38_ShutdownWritesEveryAcceptedTick ==
    life = "closed" =>
        /\ buffer = <<>>
        /\ \A t \in Elems(appended) : TimesWritten(t) >= 1

\* ------------------------------------------------------------------------
\* CandleService._find_gaps
\* ------------------------------------------------------------------------

\* the interval tokens of the API, and one token outside the enumeration
KnownIntervals == {"1m", "5m", "15m", "1h", "1d"}
Intervals == KnownIntervals \cup {"30m"}

\* interval_map.get(interval, timedelta(minutes=1)), in units of 30 seconds
Delta(interval) ==
    CASE interval = "1m" -> 2
      [] interval = "5m" -> 10
      [] interval = "15m" -> 30
      [] interval = "1h" -> 120
      [] interval = "1d" -> 2880
      [] OTHER -> 2

\* mutant: no candle at all means no gap
EmptyGaps_NoGap(from, to) == <<>>

\* "if not candles": the entire range is one gap
EmptyGaps(from, to) == << <<from, to>> >>

\* mutant: the leading gap starts one interval before from_date
LeadingGap_StartsEarly(candles, from, d) ==
    IF candles[1] > from + d THEN << <<from - d, candles[1] - d>> >> ELSE <<>>

\* "Check gap before first candle"
LeadingGap(candles, from, d) ==
    IF candles[1] > from + d THEN << <<from, candles[1] - d>> >> ELSE <<>>

\* mutant: two adjacent buckets count as a gap
PairGap_Adjacent(current_bucket, next_bucket, d) ==
    IF next_bucket >= current_bucket + d
    THEN << <<current_bucket + d, next_bucket - d>> >> ELSE <<>>

\* "Check gaps between candles", one pair
PairGap(current_bucket, next_bucket, d) ==
    IF next_bucket > current_bucket + d
    THEN << <<current_bucket + d, next_bucket - d>> >> ELSE <<>>

\* "for i in range(len(candles) - 1)", from pair i on
RECURSIVE InternalGaps(_, _, _)
InternalGaps(candles, i, d) ==
    IF i >= Len(candles) THEN <<>>
    ELSE PairGap(candles[i], candles[i + 1], d) \o InternalGaps(candles, i + 1, d)

\* mutant: a last candle exactly one interval before to_date leaves a gap
TrailingGap_Inclusive(candles, to, d) ==
    IF candles[Len(candles)] <= to - d
    THEN << <<candles[Len(candles)] + d, to>> >> ELSE <<>>

\* "Check gap after last candle"
TrailingGap(candles, to, d) ==
    IF candles[Len(candles)] < to - d
    THEN << <<candles[Len(candles)] + d, to>> >> ELSE <<>>

\* _find_gaps(candles, from_date, to_date, interval); every timestamp is an
\* instant of one time line (the buckets read from the store are UTC)
find_gaps(candles, from, to, interval) ==
    IF candles = <<>> THEN EmptyGaps(from, to)
    ELSE LET d == Delta(interval) IN
         LeadingGap(candles, from, d) \o InternalGaps(candles, 1, d)
             \o TrailingGap(candles, to, d)

\* the buckets of the grid of an interval, and those inside [from, to]
Grid(interval) == {k * Delta(interval) : k \in 0..MaxBucket}
GridIn(interval, from, to) == {b \in Grid(interval) : from <= b /\ b <= to}

\* the instants from_date and to_date are drawn from: on the grid, 30
\* seconds after it, 30 seconds before it
Instants(interval) ==
    {b + o : b \in Grid(interval), o \in {0, 1, Delta(interval) - 1}}

RECURSIVE SortedSeq(_)
SortedSeq(S) ==
    IF S = {} THEN <<>>
    ELSE LET m == CHOOSE x \in S : \A y \in S : x <= y
         IN <<m>> \o SortedSeq(S \ {m})

SeqRange(s) == {s[i] : i \in DOMAIN s}

GapOff ==
    /\ gInterval = "1m" /\ gFrom = 0 /\ gTo = 0
    /\ gCandles = <<>> /\ gGaps = <<>> /\ gPc = "off"

\* the inputs _find_gaps is called with: the rows of _query_db_candles, which
\* are grid buckets inside [from_date, to_date] in ascending order
GapInit ==
    /\ gInterval \in Intervals
    /\ gFrom \in Instants(gInterval)
    /\ gTo \in Instants(gInterval)
    /\ \E S \in SUBSET GridIn(gInterval, gFrom, gTo) : gCandles = SortedSeq(S)
    /\ gGaps = <<>>
    /\ gPc = "ready"

find_gaps_call ==
    /\ gPc = "ready"
    /\ gGaps' = find_gaps(gCandles, gFrom, gTo, gInterval)
    /\ gPc' = "done"
    /\ UNCHANGED <<gInterval, gFrom, gTo, gCandles>>



\* ------------------------------------------------------------------------
\* The store, the provider and CandleService.get_candles
\* ------------------------------------------------------------------------

Readers == {"r1", "r2"}

\* the continuous aggregates, in the order _store_candles refreshes them
Aggregates == <<"candles_1m", "candles_5m", "candles_15m", "candles_1h">>
Tables == SeqRange(Aggregates)

\* bucket width of an aggregate, in units of 30 seconds
Width(table) ==
    CASE table = "candles_1m" -> 2
      [] table = "candles_5m" -> 10
      [] table = "candles_15m" -> 30
      [] table = "candles_1h" -> 120

\* table_map.get(interval, "candles_1m")
TableOf(interval) ==
    CASE interval = "1m" -> "candles_1m"
      [] interval = "5m" -> "candles_5m"
      [] interval = "15m" -> "candles_15m"
      [] interval = "1h" -> "candles_1h"
      [] OTHER -> "candles_1m"

\* time_bucket: the bucket of an aggregate an instant falls in
BucketOf(t, table) == (t \div Width(table)) * Width(table)

\* instant (in units of 30 seconds) of a tick, whose time is in seconds
InstantOf(tick) == tick.time \div 30

\* the buckets an aggregate computes from the ticks of the window
\* [start, end] (both in units of 30 seconds)
BucketsFromTicks(table, start, end) ==
    {BucketOf(InstantOf(k), table) :
        k \in {x \in ticks : start <= InstantOf(x) /\ InstantOf(x) <= end}}

\* _query_db_candles: the buckets of the interval's table inside
\* [from_date, to_date], ORDER BY bucket
query_db_candles(from, to, interval) ==
    SortedSeq({b \in view[TableOf(interval)] : from <= b /\ b <= to})

\* strftime("%Y-%m-%d"): the day an instant lies in
DayOf(t) == t \div 2880

\* CandleService calls broker.fetch_historical_candles; the brokers implement
\* the historical fetch under the name fetch_historical, modelled here.
\* KiteBroker.fetch_historical when the API call succeeds: the request
\* carries the dates of from_date and to_date only, so the provider answers
\* with its bars of those whole days, in ascending order
fetch_historical(from, to) ==
    SortedSeq({b \in pBars : DayOf(from) <= DayOf(b) /\ DayOf(b) <= DayOf(to)})

\* KiteBroker.fetch_historical when the API call raises: "except Exception"
\* logs and returns []
fetch_historical_failed == <<>>

\* second of the minute of a bar time
SecondOf(b) == (b % 2) * 30

\* candle_time.replace(second=s) if candle_time.second == 0 else candle_time,
\* in seconds
ReplaceSecond(b, sec) == IF SecondOf(b) = 0 THEN 30 * b + sec ELSE 30 * b

\* four records for one bar, the close one minute after the open
SynthTicks_CloseNextMinute(b) ==
    { [time |-> 30 * b, ltp |-> "open", volume |-> "volume"],
      [time |-> ReplaceSecond(b, 20), ltp |-> "high", volume |-> "0"],
      [time |-> ReplaceSecond(b, 40), ltp |-> "low", volume |-> "0"],
      [time |-> ReplaceSecond(b, 60), ltp |-> "close", volume |-> "0"] }

\* the four records _store_candles builds for one bar
SynthTicks(b) ==
    { [time |-> 30 * b, ltp |-> "open", volume |-> "volume"],
      [time |-> ReplaceSecond(b, 20), ltp |-> "high", volume |-> "0"],
      [time |-> ReplaceSecond(b, 40), ltp |-> "low", volume |-> "0"],
      [time |-> ReplaceSecond(b, 59), ltp |-> "close", volume |-> "0"] }

\* a tick the live stream stored at the start of bucket b
LiveTick(b) == [time |-> 30 * b, ltp |-> "live", volume |-> "live"]

\* mutant: the bars of every interval are stored
StoresBars_EveryInterval(interval) == TRUE

\* interval == "1m": only 1-minute bars are stored
StoresBars(interval) == interval = "1m"

\* refresh_continuous_aggregate rejects a window smaller than the bucket
\* of the aggregate ("refresh window too small")
WindowTooSmall(table, start, end) == end - start < Width(table)

\* the views after _store_candles asked every aggregate to refresh the
\* window [start, end]: a rejected aggregate is skipped
Refreshed(start, end) ==
    [tb \in Tables |->
        IF WindowTooSmall(tb, start, end) THEN view[tb]
        ELSE {b \in view[tb] : b < BucketOf(start, tb) \/ b > BucketOf(end, tb)}
                 \cup BucketsFromTicks(tb, BucketOf(start, tb),
                                       BucketOf(end, tb) + Width(tb) - 1)]

ReadGrid(interval) == {k * Delta(interval) : k \in 0..MaxReadBucket}
ReadInstants(interval) == {b + o : b \in ReadGrid(interval), o \in {0, 1}}

ReadOff ==
    /\ ticks = {}
    /\ view = [tb \in Tables |-> {}]
    /\ pBars = {}
    /\ rRequests = [r \in Readers |-> <<>>]
    /\ rQueries = [r \in Readers |-> 0]
    /\ rPc = [r \in Readers |-> "off"]
    /\ rInterval = [r \in Readers |-> "1m"]
    /\ rFrom = [r \in Readers |-> 0]
    /\ rTo = [r \in Readers |-> 0]
    /\ rGaps = [r \in Readers |-> <<>>]
    /\ rBars = [r \in Readers |-> <<>>]
    /\ rFirst = [r \in Readers |-> <<>>]
    /\ rResult = [r \in Readers |-> <<>>]
    /\ rFetchFailed = [r \in Readers |-> FALSE]
    /\ rLog = [r \in Readers |-> <<>>]

\* one get_candles call about to start: any interval token, any range with
\* from_date <= to_date, any set of stored buckets with every aggregate up
\* to date, and any set of bars held by the provider
\* the intervals of the calls made while the engine may reject a refresh:
\* the one whose bars are stored and one whose bars are not
StoreIntervals == {"1m", "5m"}

\* one get_candles call is about to start, at an interval of ivs, over a
\* store and a provider that hold any buckets of the grid
CallStarts(ivs) ==
    \E iv \in ivs :
    \E f \in ReadInstants(iv), t \in ReadInstants(iv) :
    \E S \in SUBSET ReadGrid(iv), P \in SUBSET ReadGrid(iv) :
        /\ f <= t
        /\ ticks = {LiveTick(b) : b \in S}
        /\ view = [tb \in Tables |-> {BucketOf(b, tb) : b \in S}]
        /\ pBars = P
        /\ rRequests = [r \in Readers |-> <<>>]
        /\ rQueries = [r \in Readers |-> 0]
        /\ rPc = [r \in Readers |-> IF r = "r1" THEN "start" ELSE "off"]
        /\ rInterval = [r \in Readers |-> iv]
        /\ rFrom = [r \in Readers |-> f]
        /\ rTo = [r \in Readers |-> t]
        /\ rGaps = [r \in Readers |-> <<>>]
        /\ rBars = [r \in Readers |-> <<>>]
        /\ rFirst = [r \in Readers |-> <<>>]
        /\ rResult = [r \in Readers |-> <<>>]
        /\ rFetchFailed = [r \in Readers |-> FALSE]
        /\ rLog = [r \in Readers |-> <<>>]

ReadInit == CallStarts(Intervals)
StoreInit == CallStarts(StoreIntervals)

\* mutant: the backfill and the re-query run whatever the detector found
HasGaps_Always(gaps) == TRUE

\* "if gaps:"
HasGaps(gaps) == gaps # <<>>

\* get_candles, steps 1 and 2: query the store and detect the gaps; without
\* gaps the candles are returned at once
get_candles_query(r) ==
    /\ rPc[r] = "start"
    /\ LET db_candles == query_db_candles(rFrom[r], rTo[r], rInterval[r])
           gaps == find_gaps(db_candles, rFrom[r], rTo[r], rInterval[r])
       IN /\ rFirst' = [rFirst EXCEPT ![r] = db_candles]
          /\ rGaps' = [rGaps EXCEPT ![r] = gaps]
          /\ IF ~HasGaps(gaps)
             THEN /\ rPc' = [rPc EXCEPT ![r] = "returned"]
                  /\ rResult' = [rResult EXCEPT ![r] = db_candles]
             ELSE /\ rPc' = [rPc EXCEPT ![r] = "backfill"]
                  /\ UNCHANGED rResult
    /\ rQueries' = [rQueries EXCEPT ![r] = @ + 1]
    /\ UNCHANGED <<ticks, view, pBars, rRequests,
                   rInterval, rFrom, rTo, rBars,
                   rFetchFailed, rLog>>

\* a broker list that is never taken for empty
NoBars_Never(bars) == FALSE

\* "if not broker_candles": the broker returned no bar
NoBars(bars) == bars = <<>>

\* an entry of the history of a call: the operation ("fetch" when the
\* provider answered, "fetch_error" when it raised, "insert", "refresh"),
\* the gap being backfilled and the bars fetched, stored or refreshed
Event(op, gap, bars) == [op |-> op, gap |-> gap, bars |-> bars]

\* what _backfill_gap does with the list the broker returned: nothing for
\* an empty list and for an interval whose bars are not stored (the next
\* gap follows), otherwise _store_candles starts
AfterFetch(r, op, bars) ==
    /\ rLog' = [rLog EXCEPT ![r] = Append(@, Event(op, Head(rGaps[r]), bars))]
    /\ IF NoBars(bars) \/ ~StoresBars(rInterval[r])
       THEN /\ rGaps' = [rGaps EXCEPT ![r] = Tail(rGaps[r])]
            /\ UNCHANGED <<rPc, rBars>>
       ELSE /\ rBars' = [rBars EXCEPT ![r] = bars]
            /\ rPc' = [rPc EXCEPT ![r] = "store"]
            /\ UNCHANGED rGaps

\* _backfill_gap for the next gap: the broker answers with bars
backfill_fetch_ok(r) ==
    /\ rPc[r] = "backfill"
    /\ rGaps[r] # <<>>
    /\ AfterFetch(r, "fetch",
                  fetch_historical(Head(rGaps[r])[1], Head(rGaps[r])[2]))
    /\ UNCHANGED <<ticks, view, pBars, rRequests, rQueries,
                   rInterval, rFrom, rTo, rFirst, rResult,
                   rFetchFailed>>

\* _backfill_gap for the next gap: the provider's API call raises inside
\* fetch_historical, which returns []
backfill_fetch_api_error(r) ==
    /\ rPc[r] = "backfill"
    /\ rGaps[r] # <<>>
    /\ rFetchFailed' = [rFetchFailed EXCEPT ![r] = TRUE]
    /\ AfterFetch(r, "fetch_error", fetch_historical_failed)
    /\ UNCHANGED <<ticks, view, pBars, rRequests, rQueries,
                   rInterval, rFrom, rTo, rFirst, rResult>>

\* _backfill_gap for the next gap: _ensure_authenticated raises before the
\* try block of fetch_historical; _backfill_gap logs and re-raises, and
\* get_candles fails
backfill_fetch_auth_error(r) ==
    /\ rPc[r] = "backfill"
    /\ rGaps[r] # <<>>
    /\ rFetchFailed' = [rFetchFailed EXCEPT ![r] = TRUE]
    /\ rPc' = [rPc EXCEPT ![r] = "raised"]
    /\ rLog' = [rLog EXCEPT ![r] =
                   Append(@, Event("fetch_error", Head(rGaps[r]), <<>>))]
    /\ UNCHANGED <<ticks, view, pBars, rRequests, rQueries,
                   rInterval, rFrom, rTo, rGaps, rBars,
                   rFirst, rResult>>

\* the rows _store_candles builds for the bars
SynthRows(bars) == UNION {SynthTicks(bars[i]) : i \in DOMAIN bars}

\* a plain INSERT raises on a row that repeats a stored row
ConflictRaises_PlainInsert(rows) == rows \cap ticks # {}

\* INSERT ... ON CONFLICT DO NOTHING: a row that repeats a stored row is
\* skipped and is never an error
ConflictRaises(rows) == FALSE

\* _store_candles, the insert: four ticks per bar, ON CONFLICT DO NOTHING
store_insert(r) ==
    /\ rPc[r] = "store"
    /\ ticks' = IF ConflictRaises(SynthRows(rBars[r])) THEN ticks
                ELSE ticks \cup SynthRows(rBars[r])
    /\ rPc' = [rPc EXCEPT ![r] =
                  IF ConflictRaises(SynthRows(rBars[r])) THEN "raised"
                  ELSE "refresh"]
    /\ rLog' = [rLog EXCEPT ![r] =
                   Append(@, Event("insert", Head(rGaps[r]), rBars[r]))]
    /\ UNCHANGED <<view, pBars, rRequests, rQueries,
                   rInterval, rFrom, rTo, rGaps, rBars, rFirst,
                   rResult, rFetchFailed>>

\* start_time = min(c["time"] for c in candles), end_time = max(...)
StartTime(bars) == CHOOSE t \in SeqRange(bars) : \A u \in SeqRange(bars) : t <= u
EndTime(bars) == CHOOSE t \in SeqRange(bars) : \A u \in SeqRange(bars) : t >= u

\* how one CALL refresh_continuous_aggregate ends: "refreshed", "skipped"
\* (InvalidParameterValueError, refresh window too small) or "raised" (any
\* other error; failing is the position of the aggregate whose refresh
\* raises it, 0 when none does)
RefreshOutcome(i, start, end, failing) ==
    IF i = failing THEN "raised"
    ELSE IF WindowTooSmall(Aggregates[i], start, end) THEN "skipped"
    ELSE "refreshed"

\* mutant: the loop over the aggregates ends at the first one rejected
EndsLoop_AnyRejection(outcome) == outcome # "refreshed"

\* "else: raise": only an error other than the window being too small
\* leaves the loop over the aggregates
EndsLoop(outcome) == outcome = "raised"

\* "for aggregate in [...]" from aggregate i on: the calls made for the bars
\* of a gap, each with its window, whether the rows of the bars were in
\* tick_data when it was made, and how it ended
RECURSIVE RefreshCalls(_, _, _, _, _)
RefreshCalls(i, gap, bars, written, failing) ==
    IF i > Len(Aggregates) THEN <<>>
    ELSE LET start == StartTime(bars)
             end == EndTime(bars)
             outcome == RefreshOutcome(i, start, end, failing)
         IN << [table |-> Aggregates[i], gap |-> gap, bars |-> bars,
                start |-> start, end |-> end, written |-> written,
                outcome |-> outcome] >>
            \o (IF EndsLoop(outcome) THEN <<>>
                ELSE RefreshCalls(i + 1, gap, bars, written, failing))

\* the views after the calls: an aggregate whose call ended "refreshed" is
\* recomputed, the others are left as they were
ViewAfter(calls, start, end) ==
    [tb \in Tables |->
        IF \E i \in DOMAIN calls :
              calls[i].table = tb /\ calls[i].outcome = "refreshed"
        THEN Refreshed(start, end)[tb] ELSE view[tb]]

\* _store_candles, the refreshes of every aggregate for the window
\* [min bar time, max bar time]; _backfill_gap returns and the next gap
\* follows
store_refresh(r) ==
    /\ rPc[r] = "refresh"
    /\ view' = Refreshed(rBars[r][1], rBars[r][Len(rBars[r])])
    /\ rGaps' = [rGaps EXCEPT ![r] = Tail(rGaps[r])]
    /\ rBars' = [rBars EXCEPT ![r] = <<>>]
    /\ rPc' = [rPc EXCEPT ![r] = "backfill"]
    /\ rLog' = [rLog EXCEPT ![r] =
                   Append(@, Event("refresh", Head(rGaps[r]), rBars[r]))]
    /\ rRequests' = [rRequests EXCEPT ![r] =
                        @ \o RefreshCalls(1, Head(rGaps[r]), rBars[r],
                                          SynthRows(rBars[r]) \subseteq ticks, 0)]
    /\ UNCHANGED <<ticks, pBars, rQueries, rInterval, rFrom, rTo, rFirst,
                   rResult, rFetchFailed>>

\* _store_candles, the refreshes when the engine rejects the refresh of
\* one aggregate with an error other than "refresh window too small": the
\* error leaves _store_candles, _backfill_gap logs and re-raises it, and
\* get_candles fails
store_refresh_rejected(r, failing) ==
    /\ rPc[r] = "refresh"
    /\ LET calls == RefreshCalls(1, Head(rGaps[r]), rBars[r],
                                 SynthRows(rBars[r]) \subseteq ticks, failing)
       IN /\ view' = ViewAfter(calls, StartTime(rBars[r]), EndTime(rBars[r]))
          /\ rRequests' = [rRequests EXCEPT ![r] = @ \o calls]
          /\ rPc' = [rPc EXCEPT ![r] =
                        IF calls[Len(calls)].outcome = "raised" THEN "raised"
                        ELSE "backfill"]
    /\ rLog' = [rLog EXCEPT ![r] =
                   Append(@, Event("refresh", Head(rGaps[r]), rBars[r]))]
    /\ UNCHANGED <<ticks, pBars, rQueries, rInterval, rFrom, rTo, rGaps,
                   rBars, rFirst, rResult, rFetchFailed>>

\* get_candles, step 4: every gap was handed to _backfill_gap; re-query and
\* return
get_candles_requery(r) ==
    /\ rPc[r] = "backfill"
    /\ rGaps[r] = <<>>
    /\ rResult' = [rResult EXCEPT ![r] =
                      query_db_candles(rFrom[r], rTo[r], rInterval[r])]
    /\ rPc' = [rPc EXCEPT ![r] = "returned"]
    /\ rQueries' = [rQueries EXCEPT ![r] = @ + 1]
    /\ UNCHANGED <<ticks, view, pBars, rRequests,
                   rInterval, rFrom, rTo, rGaps, rBars,
                   rFirst, rFetchFailed, rLog>>

\* ------------------------------------------------------------------------
\* CandleService._store_candles: the records built for one candle, with the
\* prices and the volume of the candle
\* ------------------------------------------------------------------------

\* the candles of the provider: a 1-minute bar at the start of its minute,
\* with low <= open, close <= high
ProviderCandles ==
    {c \in [time : ReadGrid("1m"), open : 1..MaxPrice, high : 1..MaxPrice,
            low : 1..MaxPrice, close : 1..MaxPrice, volume : 0..MaxVolume] :
        /\ c.low <= c.open /\ c.open <= c.high
        /\ c.low <= c.close /\ c.close <= c.high}

\* one record of the list: (time, ..., ltp, volume, ...), time in seconds
Record(time, ltp, volume) == [time |-> time, ltp |-> ltp, volume |-> volume]

\* mutant: every record carries the volume of the candle
Records_VolumeOnEach(c) ==
    << Record(30 * c.time, c.open, c.volume),
       Record(ReplaceSecond(c.time, 20), c.high, c.volume),
       Record(ReplaceSecond(c.time, 40), c.low, c.volume),
       Record(ReplaceSecond(c.time, 59), c.close, c.volume) >>

\* "for c in candles": the four records.append of one candle
Records(c) ==
    << Record(30 * c.time, c.open, c.volume),
       Record(ReplaceSecond(c.time, 20), c.high, 0),
       Record(ReplaceSecond(c.time, 40), c.low, 0),
       Record(ReplaceSecond(c.time, 59), c.close, 0) >>

RECURSIVE SumVolume(_)
SumVolume(rows) ==
    IF rows = {} THEN 0
    ELSE LET x == CHOOSE y \in rows : TRUE
         IN x.volume + SumVolume(rows \ {x})

\* the candle an aggregate computes from the ticks of one bucket: first and
\* last price by time, highest and lowest price, sum of the volumes; a
\* bucket whose first or last instant holds two prices has no determined
\* open or close
Aggregate(rows) ==
    LET firsts == {x \in rows : \A y \in rows : x.time <= y.time}
        lasts == {x \in rows : \A y \in rows : x.time >= y.time}
    IN [open |-> {x.ltp : x \in firsts},
        high |-> CHOOSE h \in {x.ltp : x \in rows} :
                     \A x \in rows : x.ltp <= h,
        low |-> CHOOSE l \in {x.ltp : x \in rows} :
                    \A x \in rows : x.ltp >= l,
        close |-> {x.ltp : x \in lasts},
        volume |-> SumVolume(rows)]

SynthOff ==
    /\ synCandle = [time |-> 0, open |-> 1, high |-> 1, low |-> 1,
                    close |-> 1, volume |-> 0]
    /\ synRecords = <<>>
    /\ synPc = "off"

SynthInit ==
    /\ synCandle \in ProviderCandles
    /\ synRecords = <<>>
    /\ synPc = "ready"

\* _store_candles with interval "1m", the loop body for the candle
store_candles_records ==
    /\ synPc = "ready"
    /\ synRecords' = Records(synCandle)
    /\ synPc' = "done"
    /\ UNCHANGED synCandle

\* ------------------------------------------------------------------------
\* RealtimeStreamingService: auto_streaming_loop, start_streaming,
\* stop_streaming, and the shutdown of the application
\* ------------------------------------------------------------------------

\* retry_delay = 60
InitialRetryDelay == 60
\* max_retry_delay = 600
MaxRetryDelay == 600
\* refresh_interval = 3600, scaled down to three checks of the loop
RefreshInterval == 180
\* asyncio.sleep(60) of the keep-alive loop
CheckInterval == 60

\* numbers of instruments get_instruments_to_stream can return
Counts == {0, 10, 11, 12}

Min(a, b) == IF a <= b THEN a ELSE b
Abs(a) == IF a < 0 THEN 0 - a ELSE a

\* a doubling without the maximum
NextRetryDelay_NoCap(delay) == delay * 2

\* min(retry_delay * 2, max_retry_delay)
NextRetryDelay(delay) == Min(delay * 2, MaxRetryDelay)

\* abs(len(instruments) - current_count) > current_count * 0.1, for a
\* non-empty list of instruments
ChangedSignificantly(count, current_count) ==
    count # 0 /\ Abs(count - current_count) * 10 > current_count

\* a stop_streaming that leaves the subscription of the broker open
Disconnected_KeepsOpen(open, t) == open

\* broker.disconnect_websocket: the ticker of the broker is closed
Disconnected(open, t) == open \ {t}

\* the application has not been shut down
NoShutdown == [requested |-> FALSE, running |-> FALSE, closed |-> FALSE]

\* no refresh was just made
NoRefresh == [made |-> FALSE, count |-> 0, current |-> 0, restart |-> FALSE]

\* the loop has not waited yet
NoWait == [wait |-> 0, after |-> "none", prev |-> 0]

Max(a, b) == IF a >= b THEN a ELSE b

\* the history after the loop did the thing named: it is noted when the
\* shutdown has stopped streaming before
Noted(what) ==
    IF shutdown.requested THEN afterShutdown \cup {what} ELSE afterShutdown

\* what str(e).lower() of an error can hold
Errors == {"1006", "connection", "closed", "other"}

\* start_streaming: '"1006" in error_msg or "connection" in error_msg'
StartBenign(msg) == msg \in {"1006", "connection"}

\* auto_streaming_loop: '"1006" in error_msg or "connection" in error_msg
\* or "closed" in error_msg'
LoopBenign(msg) == msg \in {"1006", "connection", "closed"}

\* logger.info for a benign error, logger.error for a genuine one
LogLevel(benign) == IF benign THEN "info" ELSE "error"

\* no failure was just handled
Silent == [start |-> "none", loop |-> "none"]

\* mutant: only a benign error is followed by the wait
RetryWait_BenignOnly(benign, delay) == IF benign THEN delay ELSE 0

\* "await asyncio.sleep(retry_delay)" after the if/else that logs the error
RetryWait(benign, delay) == delay

\* the history of a failure: the except branch of auto_streaming_loop
\* begins the wait of retry_delay seconds
BeginBackoff(benign) ==
    /\ lastWait' = [wait |-> RetryWait(benign, retry_delay),
                    after |-> lastOutcome, prev |-> lastWait.wait]
    /\ maxWait' = Max(maxWait, RetryWait(benign, retry_delay))
    /\ lastOutcome' = "failure"
    /\ afterShutdown' = Noted("backoff")
    /\ dropped' = "no"
    /\ sPc' = "backoff"

StreamOff ==
    /\ is_running = FALSE
    /\ sPc = "off"
    /\ retry_delay = InitialRetryDelay
    /\ elapsed = 0
    /\ subs = {}
    /\ ticker = 0
    /\ subscribed = 0
    /\ pending = 0
    /\ nConnects = 0
    /\ lastOutcome = "none"
    /\ lastWait = NoWait
    /\ maxWait = 0
    /\ restarts = 0
    /\ shutdown = NoShutdown
    /\ afterShutdown = {}
    /\ dropped = "no"
    /\ lastRefresh = NoRefresh
    /\ logged = Silent

\* start_auto_streaming has created the task of auto_streaming_loop
StreamInit ==
    /\ is_running = FALSE
    /\ sPc = "start"
    /\ retry_delay = InitialRetryDelay
    /\ elapsed = 0
    /\ subs = {}
    /\ ticker = 0
    /\ subscribed = 0
    /\ pending = 0
    /\ nConnects = 0
    /\ lastOutcome = "none"
    /\ lastWait = NoWait
    /\ maxWait = 0
    /\ restarts = 0
    /\ shutdown = NoShutdown
    /\ afterShutdown = {}
    /\ dropped = "no"
    /\ lastRefresh = NoRefresh
    /\ logged = Silent

\* stop_streaming: nothing when not running; otherwise the subscription of
\* the broker is closed and is_running cleared, unless disconnect_websocket
\* raises (closed = FALSE): the error is logged and is_running stays set
StopStreaming(closed) ==
    IF ~is_running THEN UNCHANGED <<is_running, subs>>
    ELSE IF closed
         THEN /\ subs' = Disconnected(subs, ticker)
              /\ is_running' = FALSE
         ELSE UNCHANGED <<is_running, subs>>

\* the except branch of auto_streaming_loop: stop_streaming, then the wait
\* of retry_delay seconds begins
Failed(closed, benign) == StopStreaming(closed) /\ BeginBackoff(benign)

\* what the keep-alive check makes of a closed subscription: with
\* is_running still set the loop goes on streaming and the close has gone
\* unnoticed
Unnoticed(d, running) ==
    IF d = "closed" /\ running THEN "unnoticed" ELSE d

\* "while self.is_running": where the loop goes on with is_running = running
KeepAlive(running) == IF running THEN "inner" ELSE "start"

\* top of "while True": start_streaming is called; when already running it
\* returns at once, retry_delay is reset and the keep-alive loop starts;
\* otherwise get_instruments_to_stream is awaited
start_streaming ==
    /\ sPc = "start"
    /\ IF is_running
       THEN /\ retry_delay' = InitialRetryDelay
            /\ elapsed' = 0
            /\ lastOutcome' = "streaming"
            /\ sPc' = "inner"
       ELSE /\ sPc' = "load"
            /\ UNCHANGED <<retry_delay, elapsed, lastOutcome>>
    /\ UNCHANGED <<is_running, subs, ticker, subscribed, pending, nConnects,
                   lastWait, maxWait, restarts, shutdown, afterShutdown,
                   dropped>>
    /\ lastRefresh' = NoRefresh
    /\ logged' = Silent

\* start_streaming: get_instruments_to_stream returns; without instruments
\* start_streaming returns, retry_delay is reset, the keep-alive loop is
\* skipped and the outer loop starts over; otherwise connect_websocket is
\* awaited
get_instruments_to_stream(count) ==
    /\ sPc = "load"
    /\ IF count = 0
       THEN /\ retry_delay' = InitialRetryDelay
            /\ elapsed' = 0
            /\ lastOutcome' = "idle"
            /\ sPc' = KeepAlive(is_running)
            /\ UNCHANGED pending
       ELSE /\ pending' = count
            /\ sPc' = "connect"
            /\ UNCHANGED <<retry_delay, elapsed, lastOutcome>>
    /\ UNCHANGED <<is_running, subs, ticker, subscribed, nConnects, lastWait,
                   maxWait, restarts, shutdown, afterShutdown, dropped>>
    /\ lastRefresh' = NoRefresh
    /\ logged' = Silent

\* start_streaming: get_instruments_to_stream raises
get_instruments_to_stream_fails(msg) ==
    /\ sPc = "load"
    /\ \E closed \in BOOLEAN : Failed(closed, LoopBenign(msg))
    /\ UNCHANGED <<retry_delay, elapsed, ticker, subscribed, pending,
                   nConnects, restarts, shutdown>>
    /\ lastRefresh' = NoRefresh

\* the same with the log line of the except branch
get_instruments_to_stream_raises(msg) ==
    /\ get_instruments_to_stream_fails(msg)
    /\ logged' = [start |-> "none",
                  loop |-> LogLevel(LoopBenign(msg))]

\* start_streaming: a new broker has opened its subscription; is_running is
\* set, retry_delay is reset and the keep-alive loop starts
connect_websocket ==
    /\ sPc = "connect"
    /\ nConnects < MaxConnects
    /\ nConnects' = nConnects + 1
    /\ ticker' = nConnects + 1
    /\ subs' = subs \cup {nConnects + 1}
    /\ subscribed' = pending
    /\ is_running' = TRUE
    /\ retry_delay' = InitialRetryDelay
    /\ elapsed' = 0
    /\ lastOutcome' = "streaming"
    /\ afterShutdown' = Noted("opened")
    /\ dropped' = "no"
    /\ sPc' = "inner"
    /\ UNCHANGED <<pending, lastWait, maxWait, restarts, shutdown>>
    /\ lastRefresh' = NoRefresh
    /\ logged' = Silent

\* start_streaming: get_broker or connect_websocket raises before a
\* subscription is open; is_running is cleared and the error re-raised
connect_websocket_fails(msg) ==
    /\ sPc = "connect"
    /\ is_running' = FALSE
    /\ BeginBackoff(LoopBenign(msg))
    /\ UNCHANGED <<retry_delay, elapsed, subs, ticker, subscribed, pending,
                   nConnects, restarts, shutdown>>
    /\ lastRefresh' = NoRefresh

\* the same with the log lines of start_streaming and of the except branch
connect_websocket_raises(msg) ==
    /\ connect_websocket_fails(msg)
    /\ logged' = [start |-> LogLevel(StartBenign(msg)),
                  loop |-> LogLevel(LoopBenign(msg))]

\* the keep-alive loop: asyncio.sleep(60) returns and elapsed grows; at
\* refresh_interval get_instruments_to_stream is awaited
keep_alive ==
    /\ sPc = "inner"
    /\ elapsed' = elapsed + CheckInterval
    /\ sPc' = IF elapsed + CheckInterval >= RefreshInterval THEN "refresh"
              ELSE KeepAlive(is_running)
    /\ dropped' = Unnoticed(dropped, is_running)
    /\ UNCHANGED <<is_running, retry_delay, subs, ticker, subscribed, pending,
                   nConnects, lastOutcome, lastWait, maxWait, restarts,
                   shutdown, afterShutdown>>
    /\ lastRefresh' = NoRefresh
    /\ logged' = Silent

\* the hourly refresh: get_instruments_to_stream returns; when the number
\* of instruments changed by more than 10% stop_streaming is called and the
\* outer loop starts over, otherwise elapsed is reset
refresh(count) ==
    /\ sPc = "refresh"
    /\ ChangedSignificantly(count, subscribed) => restarts < MaxRestarts
    /\ IF ChangedSignificantly(count, subscribed)
       THEN /\ \E closed \in BOOLEAN : StopStreaming(closed)
            /\ restarts' = restarts + 1
            /\ sPc' = "start"
            /\ UNCHANGED elapsed
       ELSE /\ elapsed' = 0
            /\ sPc' = KeepAlive(is_running)
            /\ UNCHANGED <<is_running, subs, restarts>>
    /\ UNCHANGED <<retry_delay, ticker, subscribed, pending, nConnects,
                   lastOutcome, lastWait, maxWait, shutdown,
                   afterShutdown, dropped>>
    /\ lastRefresh' = [made |-> TRUE, count |-> count, current |-> subscribed,
                       restart |-> ChangedSignificantly(count, subscribed)]
    /\ logged' = Silent

\* the hourly refresh: get_instruments_to_stream raises
refresh_fails(msg) ==
    /\ sPc = "refresh"
    /\ \E closed \in BOOLEAN : Failed(closed, LoopBenign(msg))
    /\ UNCHANGED <<retry_delay, elapsed, ticker, subscribed, pending,
                   nConnects, restarts, shutdown>>
    /\ lastRefresh' = NoRefresh

\* the same with the log line of the except branch
refresh_raises(msg) ==
    /\ refresh_fails(msg)
    /\ logged' = [start |-> "none",
                  loop |-> LogLevel(LoopBenign(msg))]

\* asyncio.sleep(retry_delay) returns: retry_delay doubles up to the
\* maximum and the outer loop starts over
backoff_expires ==
    /\ sPc = "backoff"
    /\ retry_delay' = NextRetryDelay(retry_delay)
    /\ sPc' = "start"
    /\ UNCHANGED <<is_running, elapsed, subs, ticker, subscribed, pending,
                   nConnects, lastOutcome, lastWait, maxWait, restarts,
                   shutdown, afterShutdown, dropped>>
    /\ lastRefresh' = NoRefresh
    /\ logged' = Silent

\* lifespan, shutdown: realtime_service.stop_streaming() is awaited; the
\* task of auto_streaming_loop is not cancelled
lifespan_shutdown ==
    /\ sPc # "off"
    /\ ~shutdown.requested
    /\ \E closed \in BOOLEAN :
          /\ StopStreaming(closed)
          /\ shutdown' = [requested |-> TRUE, running |-> is_running,
                          closed |-> closed]
    /\ UNCHANGED <<sPc, retry_delay, elapsed, ticker, subscribed, pending,
                   nConnects, lastOutcome, lastWait, maxWait, restarts,
                   afterShutdown, dropped>>
    /\ lastRefresh' = NoRefresh
    /\ logged' = Silent

\* the process exits after the shutdown: the event loop is closed, the task
\* of auto_streaming_loop is destroyed and every socket is closed
process_exit ==
    /\ shutdown.requested
    /\ sPc # "ended"
    /\ sPc' = "ended"
    /\ subs' = {}
    /\ UNCHANGED <<is_running, retry_delay, elapsed, ticker, subscribed,
                   pending, nConnects, lastOutcome, lastWait, maxWait,
                   restarts, shutdown, afterShutdown, dropped>>
    /\ lastRefresh' = NoRefresh
    /\ logged' = Silent

\* on_close / on_error of the broker's socket: the remote side has closed
\* the subscription or reported an error; the callbacks log it and nothing
\* of the service changes
on_close ==
    /\ is_running
    /\ ticker \in subs
    /\ dropped = "no"
    /\ subs' = Disconnected(subs, ticker)
    /\ dropped' = "closed"
    /\ UNCHANGED <<is_running, sPc, retry_delay, elapsed, ticker, subscribed,
                   pending, nConnects, lastOutcome, lastWait, maxWait,
                   restarts, shutdown, afterShutdown>>
    /\ lastRefresh' = NoRefresh
    /\ logged' = Silent

\* a step of the streaming service leaves the other services alone
StreamFrame ==
    UNCHANGED <<bufVars, gapVars, readVars, histVars, sweepVars, synthVars, lifeVars>>

StreamNext ==
    \/ start_streaming /\ StreamFrame
    \/ \E count \in Counts : get_instruments_to_stream(count) /\ StreamFrame
    \/ \E msg \in Errors :
          get_instruments_to_stream_raises(msg) /\ StreamFrame
    \/ connect_websocket /\ StreamFrame
    \/ \E msg \in Errors : connect_websocket_raises(msg) /\ StreamFrame
    \/ keep_alive /\ StreamFrame
    \/ \E count \in Counts : refresh(count) /\ StreamFrame
    \/ \E msg \in Errors : refresh_raises(msg) /\ StreamFrame
    \/ backoff_expires /\ StreamFrame
    \/ lifespan_shutdown /\ StreamFrame
    \/ process_exit /\ StreamFrame
    \/ on_close /\ StreamFrame

\* ------------------------------------------------------------------------
\* auto_backfill_service, should_backfill, update_backfill_status and the
\* client-triggered _async_backfill
\* ------------------------------------------------------------------------

\* the unit of the clock of this section is 30 minutes

\* timedelta(hours=6) of should_backfill
StaleAge == 12

\* timedelta(hours=1) of should_backfill
FreshWindow == 2

\* timedelta(days=7) of auto_backfill_service
BackfillWindow == 336

\* the tokens get_all_tradable_instruments returns, in its order
Instruments == <<1, 2>>

Tokens == {Instruments[i] : i \in 1..Len(Instruments)}

\* the numbers of candles get_candles may return
CandleCounts == {0, 2}

\* the to_date values a client may trigger a backfill with (from_date is
\* one window before it)
TriggerDates == {StartClock - 4}

\* the errors of an awaited call: asyncpg's InterfaceError of a pool that
\* is closing, any other InterfaceError, any other Exception
ErrorKinds == {"pool is closing", "interface", "other"}

\* the rows of backfill_status of one instrument
RowsOf(status, token) == {r \in status : r.token = token}

StatusRow(token, date, from, to, count) ==
    [token |-> token, date |-> date, from |-> from, to |-> to,
     count |-> count]

\* an INSERT without the ON CONFLICT clause
Upsert_PlainInsert(status, row) == status \cup {row}

\* INSERT ... ON CONFLICT (instrument_token) DO UPDATE SET ...
Upsert(status, row) == (status \ RowsOf(status, row.token)) \cup {row}

\* should_backfill with ">=" in place of ">"
ShouldBackfill_AtLeast(rows, t) ==
    \/ rows = {}
    \/ \E r \in rows : t - r.date >= StaleAge \/ t - r.to >= FreshWindow

\* should_backfill: no row, or last_backfilled_date more than 6 hours
\* ago, or last_backfilled_to more than 1 hour old
ShouldBackfill(rows, t) ==
    \/ rows = {}
    \/ \E r \in rows : t - r.date > StaleAge \/ t - r.to > FreshWindow

\* pool._closing
Closing(p) == p = "closing"

\* the handlers of the for loop break on every error
AfterItemError_Break(kind) == "break"

\* the handlers of the for loop carry on with the next instrument
AfterItemError_Continue(kind) == "next"

\* the handlers of the for loop: "pool is closing" breaks, every other
\* error is logged and the loop goes on with the next instrument
AfterItemError(kind) == IF kind = "pool is closing" THEN "break" ELSE "next"

\* what the for loop has met at an instrument that raised
Failure(kind) == IF kind = "pool is closing" THEN "closing" ELSE "failed"

\* an error of that kind can be raised with the pool in state p
CanRaise(kind, p) == kind = "pool is closing" => Closing(p)

NoCheck == [rows |-> {}, at |-> 0, needs |-> FALSE, done |-> FALSE]
NoLog == [i \in 1..Len(Instruments) |-> "none"]
NoWrites == [t \in Tokens |-> {}]

\* last_backfilled_date and last_backfilled_to of the rows the table may
\* hold when the service starts: written 7, 6 or 5 hours ago, with an end
\* 30 minutes, 1 hour or 90 minutes old
InitRows ==
    {<<StartClock - 14, StartClock - 1>>, <<StartClock - 12, StartClock - 2>>,
     <<StartClock - 10, StartClock - 1>>, <<StartClock - 10, StartClock - 3>>}

\* the scheduler and the trigger endpoint are not running
SweepOff ==
    /\ pool = "open"
    /\ utcnow = StartClock
    /\ backfill_status = {}
    /\ bPc = "off"
    /\ bIdx = 0
    /\ bNow = 0
    /\ bCandles = 0
    /\ sweepLog = NoLog
    /\ abortedAt = 0
    /\ nCycles = 0
    /\ checked = NoCheck
    /\ attemptEnd = "none"
    /\ startedAfter = "none"
    /\ prevTo = NoWrites
    /\ lastWrite = NoWrites
    /\ failed = NoWrites
    /\ tPc = "idle"
    /\ tToken = 0
    /\ tTo = 0
    /\ tCandles = 0
    /\ nTriggers = 0

\* the rows the table may hold when the scheduler and the trigger
\* endpoint run side by side: written 7 or 5 hours ago, with an end 30
\* minutes old (the first makes the instrument eligible, the second not)
StatusRows == {r \in InitRows : r[2] = StartClock - 1}

\* start_auto_backfill has created the task of auto_backfill_service; the
\* table holds at most one row per instrument, drawn from rowset
ServiceStarted(rowset) ==
    /\ pool = "open"
    /\ utcnow = StartClock
    /\ \E f \in [Tokens -> {<<>>} \cup rowset] :
          backfill_status =
              {StatusRow(t, f[t][1], f[t][2] - BackfillWindow, f[t][2], 2) :
                  t \in {u \in Tokens : f[u] # <<>>}}
    /\ bPc = "init"
    /\ bIdx = 0
    /\ bNow = 0
    /\ bCandles = 0
    /\ sweepLog = NoLog
    /\ abortedAt = 0
    /\ nCycles = 0
    /\ checked = NoCheck
    /\ attemptEnd = "none"
    /\ startedAfter = "none"
    /\ prevTo = NoWrites
    /\ lastWrite = NoWrites
    /\ failed = NoWrites
    /\ tPc = "idle"
    /\ tToken = 0
    /\ tTo = 0
    /\ tCandles = 0
    /\ nTriggers = 0

SweepInit == ServiceStarted(InitRows)
StatusInit == ServiceStarted(StatusRows)

\* the for loop is done with the instrument at bIdx: "break" ends the
\* sweep, otherwise the next instrument follows, or the sweep ends after
\* the last one
LeaveItem(outcome, how) ==
    /\ sweepLog' = [sweepLog EXCEPT ![bIdx] = outcome]
    /\ IF how = "break"
       THEN /\ bPc' = "cycle"
            /\ abortedAt' = bIdx
            /\ UNCHANGED bIdx
       ELSE /\ IF bIdx < Len(Instruments)
               THEN bPc' = "item" /\ bIdx' = bIdx + 1
               ELSE bPc' = "cycle" /\ UNCHANGED bIdx
            /\ UNCHANGED abortedAt

\* update_backfill_status writes the row; the history keeps what the row
\* of the instrument held before and what was written
WriteStatus(token, from, to, count, by) ==
    /\ backfill_status' =
           Upsert(backfill_status, StatusRow(token, utcnow, from, to, count))
    /\ prevTo' = [prevTo EXCEPT
                     ![token] = {r.to : r \in RowsOf(backfill_status, token)}]
    /\ lastWrite' = [lastWrite EXCEPT
                        ![token] = {[from |-> from, to |-> to,
                                     count |-> count, by |-> by]}]
    /\ failed' = [failed EXCEPT ![token] = {}]

\* mutant: the handler of a failed backfill records the attempt in the row
StatusAfterFailure_Upserted(status, row) == Upsert(status, row)

\* "except ...": the handlers of the for loop log the error and write
\* nothing (row is what update_backfill_status would have written)
StatusAfterFailure(status, row) == status

\* get_candles or update_backfill_status has raised for the instrument:
\* the table after the handler, and the history of the failure
FailedBackfill(token) ==
    /\ backfill_status' =
           StatusAfterFailure(backfill_status,
                              StatusRow(token, utcnow, bNow - BackfillWindow,
                                        bNow, 0))
    /\ failed' = [failed EXCEPT
                     ![token] = {[before |-> RowsOf(backfill_status, token),
                                  after |-> RowsOf(backfill_status', token)]}]
    /\ UNCHANGED <<prevTo, lastWrite>>

schedVars == <<bPc, bIdx, bNow, bCandles, sweepLog, abortedAt, nCycles,
               checked, attemptEnd, startedAfter>>
statusVars == <<backfill_status, prevTo, lastWrite, failed>>
triggerVars == <<tPc, tToken, tTo, tCandles, nTriggers>>

\* get_broker() and CandleService(broker) succeed
get_broker ==
    /\ bPc = "init"
    /\ bPc' = "pool"
    /\ UNCHANGED <<bIdx, bNow, bCandles, sweepLog, abortedAt, nCycles,
                   checked, attemptEnd, startedAfter>>
    /\ UNCHANGED <<pool, utcnow, statusVars, triggerVars>>

\* get_broker() raises: the error is logged and the service returns
get_broker_raises ==
    /\ bPc = "init"
    /\ bPc' = "ended"
    /\ UNCHANGED <<bIdx, bNow, bCandles, sweepLog, abortedAt, nCycles,
                   checked, attemptEnd, startedAfter>>
    /\ UNCHANGED <<pool, utcnow, statusVars, triggerVars>>

\* top of "while True": a pool that is closing makes the service wait 60
\* seconds and start over
get_db_pool ==
    /\ bPc = "pool"
    /\ nCycles < MaxCycles
    /\ nCycles' = nCycles + 1
    /\ bPc' = IF Closing(pool) THEN "wait60" ELSE "list"
    /\ UNCHANGED <<bIdx, bNow, bCandles, sweepLog, abortedAt, checked,
                   attemptEnd, startedAfter>>
    /\ UNCHANGED <<pool, utcnow, statusVars, triggerVars>>

\* asyncio.sleep(60), continue
wait_and_continue ==
    /\ bPc = "wait60"
    /\ bPc' = "pool"
    /\ UNCHANGED <<bIdx, bNow, bCandles, sweepLog, abortedAt, nCycles,
                   checked, attemptEnd, startedAfter>>
    /\ UNCHANGED <<pool, utcnow, statusVars, triggerVars>>

\* get_all_tradable_instruments returns: without instruments the service
\* waits 60 seconds, otherwise now is taken and the for loop starts
get_all_tradable_instruments(empty) ==
    /\ bPc = "list"
    /\ IF empty
       THEN /\ bPc' = "wait60"
            /\ UNCHANGED <<bIdx, bNow, sweepLog, abortedAt, attemptEnd>>
       ELSE /\ bPc' = "item"
            /\ bIdx' = 1
            /\ bNow' = utcnow
            /\ sweepLog' = NoLog
            /\ abortedAt' = 0
            /\ attemptEnd' = "none"
    /\ UNCHANGED <<bCandles, nCycles, checked, startedAfter>>
    /\ UNCHANGED <<pool, utcnow, statusVars, triggerVars>>

\* get_all_tradable_instruments raises: the handler of the while loop logs
\* the error and the service waits for the next cycle
get_all_tradable_instruments_raises ==
    /\ bPc = "list"
    /\ bPc' = "cycle"
    /\ UNCHANGED <<bIdx, bNow, bCandles, sweepLog, abortedAt, nCycles,
                   checked, attemptEnd, startedAfter>>
    /\ UNCHANGED <<pool, utcnow, statusVars, triggerVars>>

\* top of the for loop: a pool that is closing ends the sweep
check_pool ==
    /\ bPc = "item"
    /\ IF Closing(pool)
       THEN LeaveItem("closing", "break")
       ELSE /\ bPc' = "should"
            /\ UNCHANGED <<bIdx, sweepLog, abortedAt>>
    /\ UNCHANGED <<bNow, bCandles, nCycles, attemptEnd,
                   startedAfter>>
    /\ checked' = NoCheck
    /\ UNCHANGED <<pool, utcnow, statusVars, triggerVars>>

\* should_backfill returns: an instrument that needs none is skipped, for
\* the others get_candles is awaited over the last 7 days before now
should_backfill ==
    /\ bPc = "should"
    /\ ~Closing(pool)
    /\ LET rows == RowsOf(backfill_status, Instruments[bIdx])
           needs == ShouldBackfill(rows, utcnow)
       IN /\ checked' = [rows |-> rows, at |-> utcnow, needs |-> needs,
                         done |-> TRUE]
          /\ IF needs
             THEN /\ bPc' = "get"
                  /\ startedAfter' = attemptEnd
                  /\ failed' = [failed EXCEPT ![Instruments[bIdx]] = {}]
                  /\ UNCHANGED <<bIdx, sweepLog, abortedAt>>
             ELSE /\ LeaveItem("skipped", "next")
                  /\ UNCHANGED <<startedAfter, failed>>
    /\ UNCHANGED <<bNow, bCandles, nCycles, attemptEnd>>
    /\ UNCHANGED <<pool, utcnow, backfill_status, prevTo, lastWrite,
                   triggerVars>>

\* should_backfill raises
should_backfill_raises(kind) ==
    /\ bPc = "should"
    /\ CanRaise(kind, pool)
    /\ LeaveItem(Failure(kind), AfterItemError(kind))
    /\ UNCHANGED <<bNow, bCandles, nCycles, checked, attemptEnd,
                   startedAfter>>
    /\ UNCHANGED <<pool, utcnow, statusVars, triggerVars>>

\* service.get_candles returns its candles
get_candles_returns(count) ==
    /\ bPc = "get"
    /\ ~Closing(pool)
    /\ bCandles' = count
    /\ bPc' = "upsert"
    /\ UNCHANGED <<bIdx, bNow, sweepLog, abortedAt, nCycles,
                   attemptEnd, startedAfter>>
    /\ checked' = NoCheck
    /\ UNCHANGED <<pool, utcnow, statusVars, triggerVars>>

\* service.get_candles raises
get_candles_raises(kind) ==
    /\ bPc = "get"
    /\ CanRaise(kind, pool)
    /\ LeaveItem(Failure(kind), AfterItemError(kind))
    /\ attemptEnd' = "failed"
    /\ UNCHANGED <<bNow, bCandles, nCycles, startedAfter>>
    /\ checked' = NoCheck
    /\ FailedBackfill(Instruments[bIdx])
    /\ UNCHANGED <<pool, utcnow, triggerVars>>

\* update_backfill_status(token, from_date, to_date, len(candles)) returns
update_backfill_status ==
    /\ bPc = "upsert"
    /\ ~Closing(pool)
    /\ WriteStatus(Instruments[bIdx], bNow - BackfillWindow, bNow, bCandles,
                   "sweep")
    /\ bPc' = "sleep"
    /\ UNCHANGED <<bIdx, bNow, bCandles, sweepLog, abortedAt, nCycles,
                   checked, attemptEnd, startedAfter>>
    /\ UNCHANGED <<pool, utcnow, triggerVars>>

\* update_backfill_status raises
update_backfill_status_raises(kind) ==
    /\ bPc = "upsert"
    /\ CanRaise(kind, pool)
    /\ LeaveItem(Failure(kind), AfterItemError(kind))
    /\ attemptEnd' = "failed"
    /\ UNCHANGED <<bNow, bCandles, nCycles, checked, startedAfter>>
    /\ FailedBackfill(Instruments[bIdx])
    /\ UNCHANGED <<pool, utcnow, triggerVars>>

\* asyncio.sleep(2) returns: the rate limit between two instruments
rate_limit_sleep ==
    /\ bPc = "sleep"
    /\ LeaveItem("backfilled", "next")
    /\ attemptEnd' = "slept"
    /\ UNCHANGED <<bNow, bCandles, nCycles, checked, startedAfter>>
    /\ UNCHANGED <<pool, utcnow, statusVars, triggerVars>>

\* the wait before the next cycle returns
next_cycle ==
    /\ bPc = "cycle"
    /\ bPc' = "pool"
    /\ UNCHANGED <<bIdx, bNow, bCandles, sweepLog, abortedAt, nCycles,
                   attemptEnd, startedAfter>>
    /\ checked' = NoCheck
    /\ UNCHANGED <<pool, utcnow, statusVars, triggerVars>>

\* trigger_backfill: the dates are valid and _async_backfill is added as a
\* background task; it awaits get_candles
trigger_backfill(token, to) ==
    /\ tPc = "idle"
    /\ nTriggers < MaxTriggers
    /\ to - BackfillWindow <= utcnow
    /\ nTriggers' = nTriggers + 1
    /\ tToken' = token
    /\ tTo' = to
    /\ tPc' = "get"
    /\ UNCHANGED tCandles
    /\ UNCHANGED <<pool, utcnow, statusVars, schedVars>>

\* _async_backfill: get_candles returns its candles
async_backfill_get_candles(count) ==
    /\ tPc = "get"
    /\ ~Closing(pool)
    /\ tCandles' = count
    /\ tPc' = "upsert"
    /\ UNCHANGED <<tToken, tTo, nTriggers>>
    /\ UNCHANGED <<pool, utcnow, statusVars, schedVars>>

\* _async_backfill: update_backfill_status returns
async_backfill_update_status ==
    /\ tPc = "upsert"
    /\ ~Closing(pool)
    /\ WriteStatus(tToken, tTo - BackfillWindow, tTo, tCandles, "trigger")
    /\ tPc' = "idle"
    /\ UNCHANGED <<tToken, tTo, tCandles, nTriggers>>
    /\ UNCHANGED <<pool, utcnow, schedVars>>

\* _async_backfill: get_candles or update_backfill_status raises; the
\* error is logged
async_backfill_raises ==
    /\ tPc \in {"get", "upsert"}
    /\ tPc' = "idle"
    /\ tToken' = 0
    /\ tTo' = 0
    /\ tCandles' = 0
    /\ UNCHANGED nTriggers
    /\ UNCHANGED <<pool, utcnow, statusVars, schedVars>>

\* lifespan, shutdown: close_db() starts closing the pool
close_db ==
    /\ bPc # "off"
    /\ pool = "open"
    /\ pool' = "closing"
    /\ UNCHANGED <<utcnow, statusVars, schedVars, triggerVars>>

\* half an hour passes
time_passes ==
    /\ bPc # "off"
    /\ utcnow < MaxClock
    /\ utcnow' = utcnow + 1
    /\ UNCHANGED <<pool, statusVars, schedVars, triggerVars>>

\* a step of the scheduler leaves the other services alone
SweepFrame ==
    UNCHANGED <<bufVars, gapVars, readVars, histVars, streamVars, synthVars, lifeVars>>

SweepNext ==
    \/ get_broker /\ SweepFrame
    \/ get_broker_raises /\ SweepFrame
    \/ get_db_pool /\ SweepFrame
    \/ wait_and_continue /\ SweepFrame
    \/ \E empty \in BOOLEAN :
          get_all_tradable_instruments(empty) /\ SweepFrame
    \/ get_all_tradable_instruments_raises /\ SweepFrame
    \/ check_pool /\ SweepFrame
    \/ should_backfill /\ SweepFrame
    \/ \E kind \in ErrorKinds : should_backfill_raises(kind) /\ SweepFrame
    \/ \E count \in CandleCounts : get_candles_returns(count) /\ SweepFrame
    \/ \E kind \in ErrorKinds : get_candles_raises(kind) /\ SweepFrame
    \/ update_backfill_status /\ SweepFrame
    \/ \E kind \in ErrorKinds :
          update_backfill_status_raises(kind) /\ SweepFrame
    \/ rate_limit_sleep /\ SweepFrame
    \/ next_cycle /\ SweepFrame
    \/ close_db /\ SweepFrame
    \/ time_passes /\ SweepFrame

\* the scheduler and the trigger endpoint write backfill_status side by
\* side, with the pool open
StatusNext ==
    \/ get_broker /\ SweepFrame
    \/ get_db_pool /\ SweepFrame
    \/ \E empty \in BOOLEAN :
          get_all_tradable_instruments(empty) /\ SweepFrame
    \/ wait_and_continue /\ SweepFrame
    \/ check_pool /\ SweepFrame
    \/ should_backfill /\ SweepFrame
    \/ \E count \in CandleCounts : get_candles_returns(count) /\ SweepFrame
    \/ \E kind \in ErrorKinds : get_candles_raises(kind) /\ SweepFrame
    \/ update_backfill_status /\ SweepFrame
    \/ \E kind \in ErrorKinds :
          update_backfill_status_raises(kind) /\ SweepFrame
    \/ rate_limit_sleep /\ SweepFrame
    \/ next_cycle /\ SweepFrame
    \/ \E token \in Tokens, to \in TriggerDates :
          trigger_backfill(token, to) /\ SweepFrame
    \/ \E count \in CandleCounts :
          async_backfill_get_candles(count) /\ SweepFrame
    \/ async_backfill_update_status /\ SweepFrame
    \/ async_backfill_raises /\ SweepFrame
    \/ time_passes /\ SweepFrame

\* ------------------------------------------------------------------------
\* HistoricalDataService.backfill_historical_data (POST /historical/backfill)
\* ------------------------------------------------------------------------

\* no get_candles call is under way
CallsOff ==
    /\ rPc = [r \in Readers |-> "off"]
    /\ rInterval = [r \in Readers |-> "1m"]
    /\ rFrom = [r \in Readers |-> 0]
    /\ rTo = [r \in Readers |-> 0]
    /\ rGaps = [r \in Readers |-> <<>>]
    /\ rBars = [r \in Readers |-> <<>>]
    /\ rFirst = [r \in Readers |-> <<>>]
    /\ rResult = [r \in Readers |-> <<>>]
    /\ rFetchFailed = [r \in Readers |-> FALSE]
    /\ rLog = [r \in Readers |-> <<>>]

\* the bar times of the model: the first two buckets of each day
HistGrid(interval) ==
    {2880 * d + k * Delta(interval) : d \in 0..MaxDay, k \in 0..1}

\* datetime.strptime(request.from_date, "%Y-%m-%d"): the midnight of a day
Midnight(day) == 2880 * day

\* the tick backfill_historical_data builds for one candle: the close and
\* the volume at the candle's time
HistTick(b) == [time |-> 30 * b, ltp |-> "close", volume |-> "volume"]

\* the rows backfill_historical_data hands to bulk_insert_ticks
HistRows(candles) == {HistTick(candles[i]) : i \in DOMAIN candles}

\* the aggregates CandleQueries.refresh_continuous_aggregates refreshes, in
\* its order
HistAggregates == <<"candles_1m", "candles_5m", "candles_15m">>

\* one aggregate after refresh_continuous_aggregate over [start, end]
RefreshedTable(tb, start, end) ==
    {b \in view[tb] : b < BucketOf(start, tb) \/ b > BucketOf(end, tb)}
        \cup BucketsFromTicks(tb, BucketOf(start, tb),
                              BucketOf(end, tb) + Width(tb) - 1)

\* index of the first aggregate that rejects the window, 0 when none does
FirstRejected(start, end) ==
    LET rejected == {i \in DOMAIN HistAggregates :
                        WindowTooSmall(HistAggregates[i], start, end)}
    IN IF rejected = {} THEN 0
       ELSE CHOOSE i \in rejected : \A j \in rejected : i <= j

\* the views after refresh_continuous_aggregates: the aggregates before the
\* first rejected one are refreshed, the call raises at the rejected one
HistRefreshed(start, end) ==
    LET k == FirstRejected(start, end)
    IN [tb \in Tables |->
          IF \E i \in DOMAIN HistAggregates :
                 HistAggregates[i] = tb /\ (k = 0 \/ i < k)
          THEN RefreshedTable(tb, start, end)
          ELSE view[tb]]

HistOff ==
    /\ uniqueTicks = TRUE
    /\ dupRows = 0
    /\ hPc = "off"
    /\ hRun = 0
    /\ hInterval = "1m"
    /\ hFrom = 0
    /\ hTo = 0
    /\ hCandles = <<>>
    /\ hFirst = None

\* one backfill_historical_data call about to start: an interval of the
\* enumeration, from_date <= to_date (the endpoint rejects the rest), any
\* set of live ticks stored with every aggregate up to date, any set of
\* bars held by the provider, tick_data with or without a unique index
HistInit ==
    \E iv \in KnownIntervals :
    \E f \in 0..MaxDay, t \in 0..MaxDay :
    \E S \in SUBSET HistGrid(iv), P \in SUBSET HistGrid(iv) :
    \E u \in BOOLEAN :
        /\ f <= t
        /\ ticks = {LiveTick(b) : b \in S}
        /\ view = [tb \in Tables |-> {BucketOf(b, tb) : b \in S}]
        /\ pBars = P
        /\ rRequests = [r \in Readers |-> <<>>]
        /\ rQueries = [r \in Readers |-> 0]
        /\ CallsOff
        /\ uniqueTicks = u
        /\ dupRows = 0
        /\ hPc = "start"
        /\ hRun = 1
        /\ hInterval = iv
        /\ hFrom = f
        /\ hTo = t
        /\ hCandles = <<>>
        /\ hFirst = None

\* what backfill_historical_data does with the list the broker returned:
\* "return 0" for an empty list, otherwise the insert follows
HistAfterFetch(candles) ==
    /\ hCandles' = candles
    /\ hPc' = IF candles = <<>> THEN "returned" ELSE "insert"
    /\ UNCHANGED <<ticks, view, pBars, rRequests, rQueries,
                   uniqueTicks, dupRows, hRun, hInterval,
                   hFrom, hTo, hFirst>>

\* broker.fetch_historical answers
backfill_historical_data_fetch ==
    /\ hPc = "start"
    /\ HistAfterFetch(fetch_historical(Midnight(hFrom), Midnight(hTo)))

\* the provider's API call raises inside fetch_historical, which returns []
backfill_historical_data_fetch_api_error ==
    /\ hPc = "start"
    /\ HistAfterFetch(fetch_historical_failed)

\* _ensure_authenticated raises: backfill_historical_data logs and re-raises
backfill_historical_data_fetch_auth_error ==
    /\ hPc = "start"
    /\ hPc' = "raised"
    /\ UNCHANGED <<ticks, view, pBars, rRequests, rQueries,
                   uniqueTicks, dupRows, hRun, hInterval,
                   hFrom, hTo, hCandles, hFirst>>

\* TickDataQueries.bulk_insert_ticks, a plain INSERT: every row is stored,
\* also one that repeats a stored row
bulk_insert_ticks_stores ==
    /\ hPc = "insert"
    /\ ~uniqueTicks \/ HistRows(hCandles) \cap ticks = {}
    /\ ticks' = ticks \cup HistRows(hCandles)
    /\ dupRows' = dupRows + Cardinality(HistRows(hCandles) \cap ticks)
    /\ hPc' = "refresh"
    /\ UNCHANGED <<view, pBars, rRequests, rQueries,
                   uniqueTicks, hRun, hInterval, hFrom, hTo,
                   hCandles, hFirst>>

\* TickDataQueries.bulk_insert_ticks, a plain INSERT, under a unique index:
\* a row that repeats a stored row raises; backfill_historical_data logs
\* and re-raises
bulk_insert_ticks_conflict ==
    /\ hPc = "insert"
    /\ uniqueTicks
    /\ HistRows(hCandles) \cap ticks # {}
    /\ hPc' = "raised"
    /\ UNCHANGED <<ticks, view, pBars, rRequests, rQueries,
                   uniqueTicks, dupRows, hRun, hInterval,
                   hFrom, hTo, hCandles, hFirst>>

\* CandleQueries.refresh_continuous_aggregates over [from_date, to_date];
\* a rejected refresh raises and backfill_historical_data re-raises
refresh_continuous_aggregates ==
    /\ hPc = "refresh"
    /\ view' = HistRefreshed(Midnight(hFrom), Midnight(hTo))
    /\ hPc' = IF FirstRejected(Midnight(hFrom), Midnight(hTo)) = 0
              THEN "returned" ELSE "raised"
    /\ UNCHANGED <<ticks, pBars, rRequests, rQueries,
                   uniqueTicks, dupRows, hRun, hInterval,
                   hFrom, hTo, hCandles, hFirst>>

\* the same backfill is asked for again, with the provider unchanged
backfill_historical_data_again ==
    /\ hPc \in {"returned", "raised"}
    /\ hRun < MaxRuns
    /\ hFirst' = [ok |-> hPc = "returned", candles |-> hCandles,
                  ticks |-> ticks, dupRows |-> dupRows, view |-> view]
    /\ hRun' = hRun + 1
    /\ hCandles' = <<>>
    /\ hPc' = "start"
    /\ UNCHANGED <<ticks, view, pBars, rRequests, rQueries,
                   uniqueTicks, dupRows, hInterval,
                   hFrom, hTo>>

\* a step of backfill_historical_data leaves the other services alone
HistFrame ==
    UNCHANGED <<bufVars, gapVars, streamVars, sweepVars, synthVars, lifeVars, rPc, rInterval,
                rFrom, rTo,
                rGaps, rBars, rFirst, rResult, rFetchFailed, rLog>>

HistNext ==
    \/ backfill_historical_data_fetch /\ HistFrame
    \/ backfill_historical_data_fetch_api_error /\ HistFrame
    \/ backfill_historical_data_fetch_auth_error /\ HistFrame
    \/ bulk_insert_ticks_stores /\ HistFrame
    \/ bulk_insert_ticks_conflict /\ HistFrame
    \/ refresh_continuous_aggregates /\ HistFrame
    \/ backfill_historical_data_again /\ HistFrame

InitBackfill == BufInit /\ GapOff /\ HistInit /\ StreamOff /\ SweepOff /\ SynthOff /\ LifeOff
SpecBackfill == InitBackfill /\ [][HistNext]_vars

\* a step of get_candles leaves the other services alone
ReadFrame ==
    UNCHANGED <<bufVars, gapVars, histVars, streamVars, sweepVars, synthVars, lifeVars>>

ReadNext ==
    \/ \E r \in Readers : get_candles_query(r) /\ ReadFrame
    \/ \E r \in Readers : backfill_fetch_ok(r) /\ ReadFrame
    \/ \E r \in Readers : backfill_fetch_api_error(r) /\ ReadFrame
    \/ \E r \in Readers : backfill_fetch_auth_error(r) /\ ReadFrame
    \/ \E r \in Readers : store_insert(r) /\ ReadFrame
    \/ \E r \in Readers : store_refresh(r) /\ ReadFrame
    \/ \E r \in Readers : get_candles_requery(r) /\ ReadFrame

\* get_candles over a store whose aggregate engine may reject a refresh
StoreNext ==
    \/ \E r \in Readers : get_candles_query(r) /\ ReadFrame
    \/ \E r \in Readers : backfill_fetch_ok(r) /\ ReadFrame
    \/ \E r \in Readers : backfill_fetch_api_error(r) /\ ReadFrame
    \/ \E r \in Readers : backfill_fetch_auth_error(r) /\ ReadFrame
    \/ \E r \in Readers : store_insert(r) /\ ReadFrame
    \/ \E r \in Readers : store_refresh(r) /\ ReadFrame
    \/ \E r \in Readers, failing \in DOMAIN Aggregates :
          store_refresh_rejected(r, failing) /\ ReadFrame
    \/ \E r \in Readers : get_candles_requery(r) /\ ReadFrame

InitRead == BufInit /\ GapOff /\ ReadInit /\ HistOff /\ StreamOff /\ SweepOff /\ SynthOff /\ LifeOff
SpecRead == InitRead /\ [][ReadNext]_vars
InitStore ==
    BufInit /\ GapOff /\ StoreInit /\ HistOff /\ StreamOff /\ SweepOff /\ SynthOff
    /\ LifeOff
SpecStore == InitStore /\ [][StoreNext]_vars

GapNext ==
    find_gaps_call
    /\ UNCHANGED <<bufVars, readVars, histVars, streamVars, sweepVars, synthVars, lifeVars>>
SynthNext ==
    /\ store_candles_records
    /\ UNCHANGED <<bufVars, gapVars, readVars, histVars, streamVars, sweepVars,
                   lifeVars>>
InitSynth ==
    BufInit /\ GapOff /\ ReadOff /\ HistOff /\ StreamOff /\ SweepOff /\ SynthInit
    /\ LifeOff
SpecSynth == InitSynth /\ [][SynthNext]_vars

InitGaps == BufInit /\ GapInit /\ ReadOff /\ HistOff /\ StreamOff /\ SweepOff /\ SynthOff /\ LifeOff
SpecGaps == InitGaps /\ [][GapNext]_vars

\* ------------------------------------------------------------------------
\* Two concurrent get_candles calls
\* ------------------------------------------------------------------------

\* the buckets two concurrent calls can ask for
ConcGrid(interval) == {k * Delta(interval) : k \in 0..MaxConcBucket}

\* two get_candles calls about to start, for the same instrument and
\* interval and for ranges that overlap, over any store with every
\* aggregate up to date and any set of bars held by the provider
ConcInit ==
    \E iv \in {"1m", "5m"} :
    \E f1 \in ConcGrid(iv), t1 \in ConcGrid(iv) :
    \E f2 \in ConcGrid(iv), t2 \in ConcGrid(iv) :
    \E S \in SUBSET ConcGrid(iv), P \in SUBSET ConcGrid(iv) :
        /\ f1 <= t1 /\ f2 <= t2
        /\ f1 <= t2 /\ f2 <= t1
        /\ ticks = {LiveTick(b) : b \in S}
        /\ view = [tb \in Tables |-> {BucketOf(b, tb) : b \in S}]
        /\ pBars = P
        /\ rRequests = [r \in Readers |-> <<>>]
        /\ rQueries = [r \in Readers |-> 0]
        /\ rPc = [r \in Readers |-> "start"]
        /\ rInterval = [r \in Readers |-> iv]
        /\ rFrom = [r \in Readers |-> IF r = "r1" THEN f1 ELSE f2]
        /\ rTo = [r \in Readers |-> IF r = "r1" THEN t1 ELSE t2]
        /\ rGaps = [r \in Readers |-> <<>>]
        /\ rBars = [r \in Readers |-> <<>>]
        /\ rFirst = [r \in Readers |-> <<>>]
        /\ rResult = [r \in Readers |-> <<>>]
        /\ rFetchFailed = [r \in Readers |-> FALSE]
        /\ rLog = [r \in Readers |-> <<>>]

InitConcurrent == BufInit /\ GapOff /\ ConcInit /\ HistOff /\ StreamOff /\ SweepOff /\ SynthOff /\ LifeOff
SpecConcurrent == InitConcurrent /\ [][ReadNext]_vars

\* ------------------------------------------------------------------------
\* Properties of the gap detector
\* ------------------------------------------------------------------------

\* instant b lies inside one of the gaps returned
InSomeGap(b) == \E i \in DOMAIN gGaps : gGaps[i][1] <= b /\ b <= gGaps[i][2]

\* C6: for grid-aligned candles inside [from, to], the gaps returned are
\* exactly the uncovered part of the grid: a bucket of [from, to] lies
\* inside a returned gap if and only if it has no candle.
C6_GapsAreTheUncoveredBuckets ==
    gPc = "done" =>
        \A b \in GridIn(gInterval, gFrom, gTo) :
            InSomeGap(b) <=> b \notin SeqRange(gCandles)

\* C7: for an empty candle sequence, whatever the range and the interval,
\* the detector returns exactly one gap, (from, to).
C7_EmptyInputIsOneGap ==
    (gPc = "done" /\ gCandles = <<>>) => gGaps = << <<gFrom, gTo>> >>

\* C7 witness: the detector has returned for an empty sequence over a range
\* that holds several buckets.
C7_Witness ==
    /\ gPc = "done"
    /\ gCandles = <<>>
    /\ Cardinality(GridIn(gInterval, gFrom, gTo)) >= 2

\* the candles are every bucket of the grid inside [from, to]
FullGrid == SeqRange(gCandles) = GridIn(gInterval, gFrom, gTo)

C9_LiteralExample ==
    ( /\ gPc = "done"
      /\ gInterval = "1m"
      /\ gFrom = 0
      /\ gTo = 12
      /\ gCandles = <<0, 2, 10>> )
        => gGaps = << <<4, 8>>, <<12, 12>> >>

\* C10: the gaps returned are in chronological order, pairwise
\* non-overlapping, and each lies within [from, to].
C10_GapsOrderedDisjointInRange ==
    gPc = "done" =>
        /\ \A i \in DOMAIN gGaps : gFrom <= gGaps[i][1] /\ gGaps[i][2] <= gTo
        /\ \A i, j \in DOMAIN gGaps : i < j => gGaps[i][2] < gGaps[j][1]

\* C10 witness: a leading, an internal and a trailing gap were returned.
C10_Witness ==
    /\ gPc = "done"
    /\ Len(gGaps) >= 3
    /\ gGaps[1][1] = gFrom
    /\ gGaps[Len(gGaps)][2] = gTo

\* C11: over every range with from <= to (a range shorter than one
\* interval and the 1d interval included) and every candle list (the empty
\* one included), each gap returned has start <= end and spans at least one
\* interval: a bucket of the interval grid lies inside it.
C11_GapsSpanAnInterval ==
    (gPc = "done" /\ gFrom <= gTo) =>
        \A i \in DOMAIN gGaps :
            /\ gGaps[i][1] <= gGaps[i][2]
            /\ \E b \in Grid(gInterval) :
                   gGaps[i][1] <= b /\ b <= gGaps[i][2]

\* the pairs of adjacent candles the claim reports a gap for
GapPairs ==
    {i \in 1..(Len(gCandles) - 1) :
        gCandles[i + 1] > gCandles[i] + Delta(gInterval)}

HasLeading == gCandles[1] > gFrom + Delta(gInterval)
HasTrailing == gCandles[Len(gCandles)] < gTo - Delta(gInterval)

\* the position in the list of the gap after candle i
PositionOf(i) ==
    (IF HasLeading THEN 1 ELSE 0) + Cardinality({j \in GapPairs : j <= i})

\* C31: for a non-empty ascending candle sequence at an interval of the
\* API, the list returned holds, in this order and nothing else: the gap
\* [from, first - interval] if and only if first > from + interval; for
\* each adjacent pair with next > current + interval the gap
\* [current + interval, next - interval]; the gap [last + interval, to] if
\* and only if last < to - interval.
C31_GapListExactly ==
    (gPc = "done" /\ gCandles # <<>> /\ gInterval \in KnownIntervals) =>
        LET d == Delta(gInterval)
            n == Len(gCandles)
        IN  /\ Len(gGaps) = (IF HasLeading THEN 1 ELSE 0)
                                + Cardinality(GapPairs)
                                + (IF HasTrailing THEN 1 ELSE 0)
            /\ HasLeading => gGaps[1] = <<gFrom, gCandles[1] - d>>
            /\ \A i \in GapPairs :
                   gGaps[PositionOf(i)] = <<gCandles[i] + d, gCandles[i + 1] - d>>
            /\ HasTrailing => gGaps[Len(gGaps)] = <<gCandles[n] + d, gTo>>

\* C31 witness: the detector has returned for a sequence with a leading
\* gap, an internal gap, a pair of adjacent candles and a trailing gap.
C31_Witness ==
    /\ gPc = "done"
    /\ gCandles # <<>>
    /\ gInterval \in KnownIntervals
    /\ HasLeading
    /\ HasTrailing
    /\ Cardinality(GapPairs) = 1
    /\ Len(gCandles) = 3

\* ------------------------------------------------------------------------
\* Properties of the synthetic ticks
\* ------------------------------------------------------------------------

\* the 1-minute bucket a record falls in
MinuteOf(rec) == BucketOf(InstantOf(rec), "candles_1m")

\* C32: for a historical bar the backfill builds exactly four ticks in the
\* bar's bucket: the open price at the bucket start with the bar's full
\* volume, then high, low and close at three later, distinct instants with
\* zero volume; the aggregate of those ticks over the bucket (first, max,
\* min, last price, sum of volume) is the bar's open, high, low, close and
\* volume.
C32_FourTicksReproduceTheBar ==
    synPc = "done" =>
        LET c == synCandle
            r == synRecords
            agg == Aggregate(SeqRange(r))
        IN  /\ Len(r) = 4
            /\ \A i \in 1..4 : MinuteOf(r[i]) = c.time
            /\ r[1] = Record(30 * c.time, c.open, c.volume)
            /\ <<r[2].ltp, r[3].ltp, r[4].ltp>> = <<c.high, c.low, c.close>>
            /\ \A i \in 2..4 : r[i].volume = 0 /\ r[i].time > r[1].time
            /\ Cardinality({r[i].time : i \in 1..4}) = 4
            /\ agg = [open |-> {c.open}, high |-> c.high, low |-> c.low,
                      close |-> {c.close}, volume |-> c.volume]

\* C32 witness: the records were built for a bar with four different
\* prices and a positive volume, later than the first bucket.
C32_Witness ==
    /\ synPc = "done"
    /\ synCandle.low < synCandle.close
    /\ synCandle.close < synCandle.open
    /\ synCandle.open < synCandle.high
    /\ synCandle.volume > 0
    /\ synCandle.time > 0

\* ------------------------------------------------------------------------
\* Properties of get_candles
\* ------------------------------------------------------------------------

\* the buckets of the range a call asks for
RangeBuckets(r) ==
    {b \in ReadGrid(rInterval[r]) : rFrom[r] <= b /\ b <= rTo[r]}

\* the provider holds a bar for every bucket of the range asked for
ProviderFull(r) == RangeBuckets(r) \subseteq pBars

\* C4: whatever the interval and the stored state, when the provider holds
\* a bar for every bucket of the requested range, the list get_candles
\* returns has no gaps: the gap detector finds none in it for the same
\* range and interval. Stated for the interval tokens of the enumeration,
\* for ranges that hold at least one bucket, and for calls none of whose
\* fetches failed (that case is C5).
C4_NoGapsAfterRead ==
    \A r \in Readers :
        ( /\ rPc[r] = "returned"
          /\ rInterval[r] \in KnownIntervals
          /\ RangeBuckets(r) # {}
          /\ ProviderFull(r)
          /\ ~rFetchFailed[r] )
            => find_gaps(rResult[r], rFrom[r], rTo[r], rInterval[r]) = <<>>

\* C5: when a provider fetch failed while get_candles was backfilling a
\* gap, get_candles does not return a candle list (it fails instead).
C5_FetchFailureIsRaised ==
    \A r \in Readers : rFetchFailed[r] => rPc[r] # "returned"

\* C14: whenever the provider raised while _backfill_gap was fetching the
\* bars of a gap, that _backfill_gap call failed: the error reached its
\* caller, get_candles, which failed too, and no step of the call followed.
C14_ProviderErrorPropagates ==
    \A r \in Readers :
        \A i \in DOMAIN rLog[r] :
            rLog[r][i].op = "fetch_error" =>
                (i = Len(rLog[r]) /\ rPc[r] = "raised")

\* the provider answered the i-th entry of the history of a call with no bar
EmptyFetch(r, i) == rLog[r][i].op = "fetch" /\ rLog[r][i].bars = <<>>

\* C15: when the provider answers the fetch of a gap with zero bars,
\* _backfill_gap writes nothing and asks for no refresh (the call has no
\* insert and no refresh for that gap), the gap is not fetched again in the
\* same call, and _backfill_gap returns normally: get_candles goes on with
\* the gaps that follow.
C15_ZeroBarsIsNotAFailure ==
    \A r \in Readers :
        \A i \in DOMAIN rLog[r] :
            EmptyFetch(r, i) =>
                /\ \A j \in DOMAIN rLog[r] :
                       j # i => rLog[r][j].gap # rLog[r][i].gap
                /\ \A k \in DOMAIN rGaps[r] : rGaps[r][k] # rLog[r][i].gap
                /\ i = Len(rLog[r]) => rPc[r] \in {"backfill", "returned"}

\* C15 witness: a call at the 1-minute interval has returned after the
\* provider answered the fetches of two gaps with zero bars.
C15_Witness ==
    \E r \in Readers :
        /\ rPc[r] = "returned"
        /\ rInterval[r] = "1m"
        /\ \E i, j \in DOMAIN rLog[r] :
              i # j /\ EmptyFetch(r, i) /\ EmptyFetch(r, j)

\* the gaps a call detected in the candles of its first query
DetectedGaps(r) == find_gaps(rFirst[r], rFrom[r], rTo[r], rInterval[r])

\* bucket b lies in a gap the call detected
InDetectedGap(r, b) ==
    \E i \in DOMAIN DetectedGaps(r) :
        DetectedGaps(r)[i][1] <= b /\ b <= DetectedGaps(r)[i][2]

\* C16: get_candles fails only when a fetch raised, never because the
\* provider lacks bars; when it has detected gaps and returned, the list it
\* returns is the re-queried one, and every bucket of a detected gap for
\* which the provider holds no bar is still absent from it.
C16_MissingProviderDataStaysAbsent ==
    \A r \in Readers :
        /\ rPc[r] = "raised" =>
               \E i \in DOMAIN rLog[r] : rLog[r][i].op = "fetch_error"
        /\ (rPc[r] = "returned" /\ DetectedGaps(r) # <<>>) =>
               /\ rResult[r] = query_db_candles(rFrom[r], rTo[r], rInterval[r])
               /\ \A b \in RangeBuckets(r) :
                      (InDetectedGap(r, b) /\ b \notin pBars)
                          => b \notin SeqRange(rResult[r])

\* C16 witness: a call at the 1-minute interval has returned after it
\* stored the bars the provider holds for a part of a detected gap; the
\* list returned has the stored bucket and lacks another bucket of the gap.
C16_Witness ==
    \E r \in Readers :
        /\ rPc[r] = "returned"
        /\ rInterval[r] = "1m"
        /\ \E i \in DOMAIN DetectedGaps(r) :
           \E b, c \in RangeBuckets(r) :
              /\ DetectedGaps(r)[i][1] <= b /\ b <= DetectedGaps(r)[i][2]
              /\ DetectedGaps(r)[i][1] <= c /\ c <= DetectedGaps(r)[i][2]
              /\ b \in pBars /\ b \in SeqRange(rResult[r])
              /\ c \notin pBars /\ c \notin SeqRange(rResult[r])

\* the i-th entry of the history of a call is a fetch that received bars
ReceivedBars(r, i) == rLog[r][i].op = "fetch" /\ rLog[r][i].bars # <<>>

\* the calls of refresh_continuous_aggregate a call made for a gap
RequestsFor(r, gap) ==
    {k \in DOMAIN rRequests[r] : rRequests[r][k].gap = gap}

\* C33: in every backfill of a gap that received bars, once get_candles
\* has returned: a recompute was requested for every aggregate, each
\* request was made when the synthetic ticks of the bars were in tick_data,
\* and each asks for the span from the earliest to the latest bar time.
C33_RecomputeAfterWriteOverSpan ==
    \A r \in Readers :
        rPc[r] = "returned" =>
            \A i \in DOMAIN rLog[r] :
                ReceivedBars(r, i) =>
                    LET bars == SeqRange(rLog[r][i].bars)
                        made == RequestsFor(r, rLog[r][i].gap)
                    IN  /\ {rRequests[r][k].table : k \in made} = Tables
                        /\ \A k \in made :
                               /\ rRequests[r][k].written
                               /\ rRequests[r][k].start \in bars
                               /\ rRequests[r][k].end \in bars
                               /\ \A b \in bars :
                                      /\ rRequests[r][k].start <= b
                                      /\ b <= rRequests[r][k].end

\* the position of an aggregate in the order of the refreshes
PlaceOf(table) == CHOOSE i \in DOMAIN Aggregates : Aggregates[i] = table

\* get_candles failed in the backfill of this gap
GapFailed(r, gap) ==
    /\ rPc[r] = "raised"
    /\ rLog[r] # <<>>
    /\ rLog[r][Len(rLog[r])].gap = gap

\* C34: when the engine rejects the refresh of one aggregate because the
\* window is too small, the aggregates after it are still asked to refresh
\* and that rejection does not fail the backfill of the gap; a refresh
\* rejected for any other reason is the last request of the call and
\* get_candles fails in the backfill of that gap.
C34_TooSmallIsSkippedOtherRejectionFails ==
    \A r \in Readers :
        \A k \in DOMAIN rRequests[r] :
            LET q == rRequests[r][k]
                place == PlaceOf(q.table)
            IN  /\ q.outcome = "skipped" =>
                    /\ place < Len(Aggregates) =>
                           /\ k < Len(rRequests[r])
                           /\ rRequests[r][k + 1].gap = q.gap
                           /\ rRequests[r][k + 1].table = Aggregates[place + 1]
                    /\ (\A j \in RequestsFor(r, q.gap) :
                            rRequests[r][j].outcome # "raised")
                           => ~GapFailed(r, q.gap)
                /\ q.outcome = "raised" =>
                    /\ k = Len(rRequests[r])
                    /\ GapFailed(r, q.gap)

\* C34 witness: a call has returned after a backfill in which candles_1m
\* was refreshed and candles_5m, candles_15m and candles_1h were each
\* rejected for a window too small and skipped.
C34_Witness ==
    \E r \in Readers :
        /\ rPc[r] = "returned"
        /\ \E k \in DOMAIN rRequests[r] :
              /\ k + 3 <= Len(rRequests[r])
              /\ rRequests[r][k].table = "candles_1m"
              /\ rRequests[r][k].outcome = "refreshed"
              /\ \A j \in 1..3 :
                     /\ rRequests[r][k + j].gap = rRequests[r][k].gap
                     /\ rRequests[r][k + j].outcome = "skipped"
        /\ rResult[r] # rFirst[r]

\* the provider calls of a call, in the order they were made
IsProviderCall(e) == e.op \in {"fetch", "fetch_error"}
ProviderCalls(r) == SelectSeq(rLog[r], IsProviderCall)

\* C35: get_candles queries the store once and detects the gaps. Without a
\* gap it returns the candles of that query, with no provider call and no
\* second query. With gaps it calls the provider once per detected gap, in
\* the chronological order of the gaps, the insert and the refresh of a
\* gap's bars coming before the provider call of the next gap, and when it
\* returns it has queried the store exactly twice. It never makes more
\* than two queries, nor more than one provider call, one insert and one
\* round of refreshes per detected gap, so that it ends.
C35_QueryDetectBackfillRequery ==
    \A r \in Readers :
        LET gaps == DetectedGaps(r)
            calls == ProviderCalls(r)
        IN  /\ rQueries[r] <= 2
            /\ Len(calls) <= Len(gaps)
            /\ Len(rLog[r]) <= 3 * Len(gaps)
            /\ \A k \in DOMAIN calls : calls[k].gap = gaps[k]
            /\ \A i, j \in DOMAIN calls :
                   i < j => calls[i].gap[1] < calls[j].gap[1]
            /\ \A i, j \in DOMAIN rLog[r] :
                   (i < j /\ rLog[r][j].gap = rLog[r][i].gap)
                       => \A k \in i..j : rLog[r][k].gap = rLog[r][i].gap
            /\ rPc[r] \in {"backfill", "store", "refresh", "raised"}
                   => rQueries[r] = 1
            /\ (rPc[r] = "returned" /\ gaps = <<>>) =>
                   /\ rQueries[r] = 1
                   /\ rLog[r] = <<>>
                   /\ rResult[r] = rFirst[r]
            /\ (rPc[r] = "returned" /\ gaps # <<>>) =>
                   /\ rQueries[r] = 2
                   /\ Len(calls) = Len(gaps)
                   /\ rResult[r] =
                          query_db_candles(rFrom[r], rTo[r], rInterval[r])

\* C35 witness: a call at the 1-minute interval has returned after it
\* backfilled two gaps, storing bars for both.
C35_Witness ==
    \E r \in Readers :
        /\ rPc[r] = "returned"
        /\ rInterval[r] = "1m"
        /\ Len(DetectedGaps(r)) = 2
        /\ \A k \in 1..2 : ProviderCalls(r)[k].bars # <<>>
        /\ Cardinality({i \in DOMAIN rLog[r] : rLog[r][i].op = "insert"}) = 2

\* the intervals whose bars _store_candles only logs
CoarseIntervals == {"5m", "15m", "1h", "1d"}

\* the entries of the history of a call that changed tick_data or asked
\* an aggregate to recompute
StoreEvents(r) ==
    {i \in DOMAIN rLog[r] : rLog[r][i].op \in {"insert", "refresh"}}

C17_UnknownTokenRejected ==
    \A r \in Readers :
        rInterval[r] \notin KnownIntervals => rPc[r] \in {"off", "start"}

\* ------------------------------------------------------------------------
\* Properties of concurrent get_candles calls
\* ------------------------------------------------------------------------

\* the store before any get_candles call wrote to it: the live ticks, and
\* the aggregates computed from them
InitialStore ==
    LET live == {k \in ticks : k.ltp = "live"}
    IN [ticks |-> live,
        view |-> [tb \in Tables |-> {BucketOf(InstantOf(k), tb) : k \in live}]]

\* the store st after _store_candles stored the bars: the insert, then the
\* refresh of every aggregate that accepts the window
StoredBars(st, bars) ==
    LET start == bars[1]
        end == bars[Len(bars)]
        tk == st.ticks \cup SynthRows(bars)
    IN [ticks |-> tk,
        view |-> [tb \in Tables |->
            IF WindowTooSmall(tb, start, end) THEN st.view[tb]
            ELSE {b \in st.view[tb] :
                      b < BucketOf(start, tb) \/ b > BucketOf(end, tb)}
                 \cup {BucketOf(InstantOf(k), tb) :
                         k \in {x \in tk :
                                  /\ BucketOf(start, tb) <= InstantOf(x)
                                  /\ InstantOf(x) <= BucketOf(end, tb)
                                                       + Width(tb) - 1}}]]

\* the store st after _backfill_gap ran for each of the gaps in turn, every
\* fetch being answered by the provider
RECURSIVE BackfilledGaps(_, _, _)
BackfilledGaps(st, gaps, interval) ==
    IF gaps = <<>> THEN st
    ELSE LET bars == fetch_historical(Head(gaps)[1], Head(gaps)[2])
         IN BackfilledGaps(IF bars = <<>> \/ ~StoresBars(interval) THEN st
                           ELSE StoredBars(st, bars),
                           Tail(gaps), interval)

\* the store st after one get_candles call ran alone on it
AfterOneCall(st, from, to, interval) ==
    LET db_candles ==
            SortedSeq({b \in st.view[TableOf(interval)] : from <= b /\ b <= to})
    IN BackfilledGaps(st, find_gaps(db_candles, from, to, interval), interval)

\* both calls have returned and every fetch was answered by the provider
BothReturned ==
    \A r \in Readers : rPc[r] = "returned" /\ ~rFetchFailed[r]

C12_SecondBackfillChangesNothing ==
    ( /\ hRun = 2
      /\ hPc \in {"returned", "raised"}
      /\ hFirst.ok
      /\ hFirst.candles # <<>>
      /\ hCandles = hFirst.candles )
        => /\ hPc = "returned"
           /\ ticks = hFirst.ticks
           /\ dupRows = hFirst.dupRows
           /\ view = hFirst.view

InitSweep ==
    BufInit /\ GapOff /\ ReadOff /\ HistOff /\ StreamOff /\ SweepInit /\ SynthOff /\ LifeOff
SpecSweep == InitSweep /\ [][SweepNext]_vars
InitStatus ==
    BufInit /\ GapOff /\ ReadOff /\ HistOff /\ StreamOff /\ StatusInit /\ SynthOff
    /\ LifeOff
SpecStatus == InitStatus /\ [][StatusNext]_vars

\* ------------------------------------------------------------------------
\* Properties of the backfill scheduler
\* ------------------------------------------------------------------------

\* C23: should_backfill answers yes exactly when the instrument has no
\* row, or its last backfill ran more than 6 hours ago, or its
\* last_backfilled_to is more than 1 hour old; a row written 5 hours ago
\* whose end is 30 minutes old gives no, a row written 7 hours ago gives
\* yes.
C23_StalenessPolicy ==
    checked.done =>
        /\ checked.needs <=>
               \/ checked.rows = {}
               \/ \E r \in checked.rows :
                      checked.at - r.date > 12 \/ checked.at - r.to > 2
        /\ \A r \in checked.rows :
               (checked.at - r.date = 10 /\ checked.at - r.to = 1)
                   => ~checked.needs
        /\ \A r \in checked.rows :
               checked.at - r.date = 14 => checked.needs

\* C23 witness: should_backfill has answered no for a row written 5 hours
\* ago whose end is 30 minutes old.
C23_Witness ==
    /\ checked.done
    /\ ~checked.needs
    /\ \E r \in checked.rows :
          checked.at - r.date = 10 /\ checked.at - r.to = 1

\* C24: a sweep in which no closing pool was met has dealt with every
\* instrument, whatever failed on the way: when it is over each one has
\* been skipped as not needed, backfilled, or has failed itself, and while
\* it runs each instrument before the current one has.
C24_FailureDoesNotAbortSweep ==
    (bIdx > 0 /\ \A i \in 1..Len(Instruments) : sweepLog[i] # "closing") =>
        /\ bPc = "cycle" =>
               \A i \in 1..Len(Instruments) : sweepLog[i] # "none"
        /\ \A i \in 1..(bIdx - 1) : sweepLog[i] # "none"

\* C24 witness: a sweep is over in which the first instrument failed and
\* the second one was backfilled.
C24_Witness ==
    /\ bPc = "cycle"
    /\ sweepLog[1] = "failed"
    /\ sweepLog[2] = "backfilled"

\* C25: once the for loop has met a closing pool at an instrument, the
\* loop is left, no later instrument of the sweep is touched, and the
\* service goes on with its cycles; the service ends only when the broker
\* cannot be created, before its first cycle.
C25_ClosingPoolEndsSweepCleanly ==
    /\ bPc = "ended" => nCycles = 0
    /\ \A i \in 1..Len(Instruments) :
          sweepLog[i] = "closing" =>
              /\ bPc \in {"cycle", "pool", "wait60", "list"}
              /\ \A j \in (i + 1)..Len(Instruments) : sweepLog[j] = "none"

\* C25 witness: the first instrument was backfilled, the pool was found
\* closing at the second one, and the service has begun its next cycle,
\* where it waits for the pool.
C25_Witness ==
    /\ sweepLog[1] = "backfilled"
    /\ sweepLog[2] = "closing"
    /\ bPc = "wait60"

\* C26: a backfill of the sweep starts as the first one of the sweep or
\* after the rate-limit sleep that followed the one before it.
C26_RateLimitBetweenBackfills ==
    bPc \in {"get", "upsert"} => startedAfter \in {"none", "slept"}

\* C27: no write of backfill_status lowers last_backfilled_to of an
\* instrument: the row holds at least what it held before its last write.
C27_LastBackfilledToNeverDecreases ==
    \A t \in Tokens :
        \A r \in RowsOf(backfill_status, t) :
            \A before \in prevTo[t] : r.to >= before

\* C28: backfill_status holds at most one row per instrument, the row
\* holds the span and the count of the last write, and the write that
\* follows a returned get_candles carries the span asked for and the
\* number of candles returned.
C28_StatusHoldsLastWrite ==
    \A t \in Tokens :
        /\ Cardinality(RowsOf(backfill_status, t)) <= 1
        /\ \A w \in lastWrite[t] :
              /\ \E r \in RowsOf(backfill_status, t) :
                    r.from = w.from /\ r.to = w.to /\ r.count = w.count
              /\ (bPc = "sleep" /\ Instruments[bIdx] = t /\ w.by = "sweep") =>
                    /\ w.from = bNow - 336
                    /\ w.to = bNow
                    /\ w.count = bCandles
              /\ (tPc = "idle" /\ tToken = t /\ w.by = "trigger") =>
                    /\ w.to = tTo
                    /\ w.count = tCandles

\* C28 witness: the scheduler has written the row of an instrument and the
\* triggered backfill has written it after that.
C28_Witness ==
    \E t \in Tokens :
        /\ bNow >= StartClock
        /\ prevTo[t] = {bNow}
        /\ \E w \in lastWrite[t] : w.by = "trigger"
        /\ Cardinality(RowsOf(backfill_status, t)) = 1

\* C40: a backfill of the sweep that failed (get_candles or
\* update_backfill_status raised) has left the rows of its instrument as
\* they were; until they are written or a sweep finds the instrument
\* eligible again, the instrument stays eligible under the staleness
\* policy, and no sweep skips it.
C40_FailedBackfillLeavesRowAndEligibility ==
    \A i \in 1..Len(Instruments) :
        \A f \in failed[Instruments[i]] :
            /\ f.after = f.before
            /\ RowsOf(backfill_status, Instruments[i]) = f.before
            /\ ShouldBackfill(RowsOf(backfill_status, Instruments[i]), utcnow)
            /\ sweepLog[i] # "skipped"

\* C40 witness: the second sweep, half an hour after the service started,
\* has reached an instrument that has a row and whose backfill failed in
\* the first sweep, and is about to ask should_backfill for it.
C40_Witness ==
    /\ nCycles = 2
    /\ bPc = "should"
    /\ utcnow > StartClock
    /\ \E f \in failed[Instruments[bIdx]] : f.before # {}

\* ------------------------------------------------------------------------
\* Properties of the streaming service
\* ------------------------------------------------------------------------

\* C18: every back-off wait is at most 600 seconds; a wait that follows a
\* failure directly is twice the wait before it, or 600 when that is less
\* (60, 120, 240, 480, 600, 600, ...); the first wait, and a wait that
\* follows a period of streaming, is 60 seconds.
C18_BackoffDoublesUpToCap ==
    lastWait # NoWait =>
        /\ lastWait.wait <= 600
        /\ lastWait.after = "failure" =>
               lastWait.wait = Min(2 * lastWait.prev, 600)
        /\ lastWait.after \in {"none", "streaming"} => lastWait.wait = 60

\* C18 witness: the waits have grown to 600 seconds, a period of streaming
\* followed, and the failure after it waits 60 seconds.
C18_Witness ==
    /\ sPc = "backoff"
    /\ maxWait = 600
    /\ lastWait.after = "streaming"
    /\ lastWait.wait = 60

\* C19: at most one push subscription is open at any time; a subscription
\* opened in place of an earlier one therefore finds the earlier one closed.
C19_AtMostOneSubscription == Cardinality(subs) <= 1

\* C19 witness: after a refresh asked for a restart, a second subscription
\* is open and is the one the service holds.
C19_Witness ==
    /\ restarts >= 1
    /\ nConnects >= 2
    /\ is_running
    /\ subs = {ticker}

\* C20: once the shutdown has stopped a running stream and closed its
\* subscription, no subscription is open and the loop opens none and begins
\* no back-off wait.
C20_NothingAfterShutdown ==
    (shutdown.requested /\ shutdown.running /\ shutdown.closed) =>
        (subs = {} /\ afterShutdown = {})

\* C21: when the remote side has closed the subscription or reported an
\* error, the supervisor leaves streaming: no keep-alive check that follows
\* finds the service still running and goes on.
C21_CloseLeavesStreaming == dropped # "unnoticed"

\* C22: after start_streaming has found the instrument set empty, no
\* subscription is open, the service is not running and the supervisor is
\* not attempting to connect again.
C22_EmptySetStaysIdle ==
    (lastOutcome = "idle" /\ sPc # "ended") =>
        /\ subs = {}
        /\ ~is_running
        /\ sPc \notin {"load", "connect"}

\* the instrument set differs from the subscribed one by more than 10% of
\* the subscribed one (the sets are compared by their sizes)
ChangedBeyondThreshold(count, current) == Abs(count - current) * 10 > current

\* C36: at each hourly refresh of a running stream the supervisor loads the
\* instrument set again; it stops the stream to subscribe anew if and only
\* if the set differs from the subscribed one by more than 10%.
C36_RefreshRestartsBeyondThreshold ==
    (lastRefresh.made /\ lastRefresh.current > 0) =>
        (lastRefresh.restart
            <=> ChangedBeyondThreshold(lastRefresh.count, lastRefresh.current))

\* the step is the handling of a failure whose error reads msg, the log
\* lines left aside
HandlesFailure(msg) ==
    \/ get_instruments_to_stream_fails(msg)
    \/ connect_websocket_fails(msg)
    \/ refresh_fails(msg)

\* C37: whatever the supervisor does after a failure (the subscription it
\* closes, the delay it waits, the next retry delay, where the loop goes
\* on) is the same for an error classified as benign and for one
\* classified as genuine: a step that handles a failure with one error
\* message is, but for the log, the step that handles it with any other.
C37_ClassificationOnlyChangesLog ==
    [][\A m1, m2 \in Errors : HandlesFailure(m1) => HandlesFailure(m2)]_vars

\* C37 witness: a failure logged as a genuine error has just been handled
\* after one logged as benign: the second wait follows a first one.
C37_Witness ==
    /\ sPc = "backoff"
    /\ logged.loop = "error"
    /\ lastWait.after = "failure"
    /\ lastWait.wait = 2 * InitialRetryDelay
    /\ lastWait.prev = InitialRetryDelay

InitStream ==
    BufInit /\ GapOff /\ ReadOff /\ HistOff /\ StreamInit /\ SweepOff /\ SynthOff /\ LifeOff
SpecStream == InitStream /\ [][StreamNext]_vars

\* auto_streaming_loop on its own: no shutdown and no close by the remote
\* side
LoopNext ==
    \/ start_streaming /\ StreamFrame
    \/ \E count \in Counts : get_instruments_to_stream(count) /\ StreamFrame
    \/ \E msg \in Errors :
          get_instruments_to_stream_raises(msg) /\ StreamFrame
    \/ connect_websocket /\ StreamFrame
    \/ \E msg \in Errors : connect_websocket_raises(msg) /\ StreamFrame
    \/ keep_alive /\ StreamFrame
    \/ \E count \in Counts : refresh(count) /\ StreamFrame
    \/ \E msg \in Errors : refresh_raises(msg) /\ StreamFrame
    \/ backoff_expires /\ StreamFrame
SpecLoop == InitStream /\ [][LoopNext]_vars

\* a step of the ingestion service leaves the other services alone
BufFrame ==
    UNCHANGED <<gapVars, readVars, histVars, streamVars, sweepVars, synthVars, lifeVars>>

Init == BufInit /\ GapOff /\ ReadOff /\ HistOff /\ StreamOff /\ SweepOff /\ SynthOff /\ LifeOff
Next ==
    \/ \E p \in Producers : handle_tick(p) /\ BufFrame
    \/ \E p \in Producers : handle_tick_locked(p) /\ BufFrame
    \/ \E f \in Flushers : flush_buffer(f) /\ BufFrame
    \/ \E f \in Flushers : flush_buffer_locked(f) /\ BufFrame
    \/ \E q \in Procs : bulk_insert_ticks_ok(q) /\ BufFrame
    \/ \E q \in Procs : bulk_insert_ticks_raises(q) /\ BufFrame
Spec == Init /\ [][Next]_vars

\* the ingestion service while the lifespan cancels the flush loop
CancelNext ==
    \/ \E p \in Producers : handle_tick(p) /\ BufFrame
    \/ \E p \in Producers : handle_tick_locked(p) /\ BufFrame
    \/ \E f \in Flushers : flush_buffer(f) /\ BufFrame
    \/ \E f \in Flushers : flush_buffer_locked(f) /\ BufFrame
    \/ \E q \in Procs : bulk_insert_ticks_ok(q) /\ BufFrame
    \/ \E q \in Procs : bulk_insert_ticks_raises(q) /\ BufFrame
    \/ flush_task_cancel /\ BufFrame
    \/ \E stored \in BOOLEAN : flush_loop_cancelled(stored) /\ BufFrame
SpecCancel == Init /\ [][CancelNext]_vars

\* a step of the ingestion service or of the lifespan leaves the other
\* services alone
LifeFrame ==
    UNCHANGED <<gapVars, readVars, histVars, streamVars, sweepVars, synthVars>>

\* the ingestion service fed by the subscription while the lifespan shuts
\* the application down
ShutdownNext ==
    \/ tick_handler /\ LifeFrame
    \/ handle_tick_locked("stream") /\ UNCHANGED life /\ LifeFrame
    \/ flush_loop_wakes /\ LifeFrame
    \/ \E f \in Flushers : flush_buffer_locked(f) /\ UNCHANGED life /\ LifeFrame
    \/ \E q \in Procs : insert_stored(q) /\ LifeFrame
    \/ \E q \in Procs : bulk_insert_ticks_raises(q) /\ UNCHANGED life
                          /\ LifeFrame
    \/ lifespan_cancel /\ LifeFrame
    \/ \E stored \in BOOLEAN : flush_loop_cancelled(stored) /\ UNCHANGED life
                                 /\ LifeFrame
    \/ lifespan_flush /\ LifeFrame
    \/ lifespan_stop_streaming /\ LifeFrame
    \/ lifespan_close_db /\ LifeFrame
SpecShutdown == Init /\ [][ShutdownNext]_vars

====
